---- MODULE Spec2Model ----
(***************************************************************************)
(* Version registry and version router of the versioned agent system.      *)
(*                                                                         *)
(* AgentRegistry (agent-registry.ts) keeps the agent configurations in a   *)
(* Map keyed by version identifier plus one default-version pointer.       *)
(* VersionRouter (version-router.ts) keeps the user pins, the tenant       *)
(* configurations and the global configuration, and resolves the version   *)
(* for an execution context.  AgentExecutor (agent-executor.ts) resolves   *)
(* the version of a request, looks its configuration up, calls the         *)
(* completion capability and hands a record to the log sink.               *)
(*                                                                         *)
(* Conventions of the model                                                *)
(*  - a JavaScript Map is a sequence of entries in insertion order (a set  *)
(*    on an existing key keeps the key's position, a delete closes the     *)
(*    gap), because getVersions() and getUsersPinnedToVersion() iterate    *)
(*    the map;                                                             *)
(*  - null / undefined is the value Undefined; a string is "truthy" when   *)
(*    it is neither Undefined nor the empty string;                        *)
(*  - temperature is held in tenths (0.7 is 7), so the schema range [0,2]  *)
(*    is 0..20;                                                            *)
(*  - UserVersionPin.pinnedAt (new Date()) is not modelled: no operation   *)
(*    of the registry or the router reads it;                              *)
(*  - execute is asynchronous: it runs to `await provider.complete(...)`   *)
(*    in one step, stays suspended while other calls run, and runs from    *)
(*    the settled completion to its return or rejection in another step;   *)
(*  - a thrown Error is ret.ok = FALSE with the kind of error in           *)
(*    ret.value; a normal return is ret.ok = TRUE with the returned value. *)
(***************************************************************************)
EXTENDS Integers, Sequences, FiniteSets, TLC

VARIABLES
  configs,         \* AgentRegistry.configs: Map<AgentVersion, AgentConfig>
  defaultVersion,  \* AgentRegistry.defaultVersion: AgentVersion | null
  userPins,        \* VersionRouter.userPins: Map<UserId, UserVersionPin>
  tenantConfigs,   \* VersionRouter.tenantConfigs: Map<TenantId, TenantConfig>
  globalConfig,    \* VersionRouter.globalConfig: GlobalConfig | null
  providers,       \* AgentExecutor.providers: Map<string, ILLMProvider>
  calls,           \* calls the last settled execute made on the provider
                   \* and the sink
  pending,         \* execute calls suspended at `await provider.complete`
  ret              \* outcome of the last call: [op, args, ok, value]

vars == <<configs, defaultVersion, userPins, tenantConfigs, globalConfig,
          providers, calls, pending, ret>>

-----------------------------------------------------------------------------
(* Values *)

Undefined == "<undefined>"

Truthy(s) == s # Undefined /\ s # ""

\* Version identifiers the callers use.  Chars gives the characters of an
\* identifier, which is what the version pattern of getLatestVersion reads.
VersionIds == {"v1.0", "v2.0", "v10.0"}

Chars(v) ==
  CASE v = "v1.0"   -> <<"v", "1", ".", "0">>
    [] v = "v2.0"   -> <<"v", "2", ".", "0">>
    [] v = "v10.0"  -> <<"v", "1", "0", ".", "0">>
    [] v = "v2.1"   -> <<"v", "2", ".", "1">>
    [] v = "2.0"    -> <<"2", ".", "0">>
    [] v = "v2.0.1" -> <<"v", "2", ".", "0", ".", "1">>
    [] v = "v2.0.x" -> <<"v", "2", ".", "0", ".", "x">>
    [] v = "latest" -> <<"l", "a", "t", "e", "s", "t">>
    [] v = "v2"     -> <<"v", "2">>
    [] v = ""       -> <<>>

UserIds == {"alice", "bob"}

\* Tenant identifiers a context can carry.
TenantIds == {"acme", "startup"}

TemperatureMin == 0
TemperatureMax == 20

Providers == {"openai", "anthropic"}

\* AgentConfig (parameters and metadata are free-form and never read).
\* maxTokens?: number is the empty set when absent, else {n}.
AgentConfig(v, prompt, provider, model, temperature, maxTokens) ==
  [version |-> v, prompt |-> prompt, provider |-> provider, model |-> model,
   temperature |-> temperature, maxTokens |-> maxTokens]

\* Mutant of AgentConfigSchema: the temperature has no lower bound.
AgentConfigSchema_NoTemperatureMin(c) ==
  /\ c.version # Undefined /\ Len(Chars(c.version)) >= 1
  /\ c.prompt # Undefined /\ c.prompt # ""
  /\ c.provider \in Providers
  /\ c.model # Undefined /\ c.model # ""
  /\ c.temperature <= TemperatureMax
  /\ \A n \in c.maxTokens : n > 0

\* AgentConfigSchema.parse accepts the config.
AgentConfigSchema(c) ==
  /\ c.version # Undefined /\ Len(Chars(c.version)) >= 1
  /\ c.prompt # Undefined /\ c.prompt # ""
  /\ c.provider \in Providers
  /\ c.model # Undefined /\ c.model # ""
  /\ c.temperature >= TemperatureMin /\ c.temperature <= TemperatureMax
  /\ \A n \in c.maxTokens : n > 0

\* UserVersionPin
UserVersionPin(u, v, reason) == [userId |-> u, version |-> v, reason |-> reason]

\* TenantConfig; NoTenantConfig is a tenant without an entry in the map.
\* promptOverrides?: Partial<Pick<AgentConfig, 'temperature' | 'maxTokens' |
\* 'model'>>: each field is the empty set when absent, else {value}.
PromptOverrides(temperature, maxTokens, model) ==
  [present |-> TRUE, temperature |-> temperature, maxTokens |-> maxTokens,
   model |-> model]
NoPromptOverrides ==
  [present |-> FALSE, temperature |-> {}, maxTokens |-> {}, model |-> {}]

TenantConfigWith(v, overrides) ==
  [has |-> TRUE, defaultVersion |-> v, promptOverrides |-> overrides]
TenantConfig(v) == TenantConfigWith(v, NoPromptOverrides)
NoTenantConfig ==
  [has |-> FALSE, defaultVersion |-> Undefined,
   promptOverrides |-> NoPromptOverrides]

\* GlobalConfig; NoGlobalConfig is globalConfig = null.
GlobalConfig(v) == [isNull |-> FALSE, defaultVersion |-> v]
NoGlobalConfig == [isNull |-> TRUE, defaultVersion |-> Undefined]

\* ExecutionContext
ExecutionContext(u, t, v) == [userId |-> u, tenantId |-> t, version |-> v]

\* Outcome of a call.  args holds the arguments of a migrateUsers or
\* rollback call, and is empty for the other calls.
ReturnedOf(op, args, value) == [op |-> op, args |-> args, ok |-> TRUE, value |-> value]
ThrownOf(op, args, err) == [op |-> op, args |-> args, ok |-> FALSE, value |-> err]
Returned(op, value) == ReturnedOf(op, <<>>, value)
Thrown(op, err) == ThrownOf(op, <<>>, err)

-----------------------------------------------------------------------------
(* Map helpers *)

\* Index of the entry with the given key, 0 when there is none.
IndexOfVersion(cfgs, v) ==
  IF \E i \in 1..Len(cfgs) : cfgs[i].version = v
  THEN CHOOSE i \in 1..Len(cfgs) : cfgs[i].version = v
  ELSE 0

IndexOfUser(pins, u) ==
  IF \E i \in 1..Len(pins) : pins[i].userId = u
  THEN CHOOSE i \in 1..Len(pins) : pins[i].userId = u
  ELSE 0

\* Mutant of RemoveAt: the oldest entry is deleted, whichever key was asked.
RemoveAt_First(s, i) == [j \in 1..(Len(s) - 1) |-> s[j + 1]]

\* Map.delete: the sequence without its i-th entry.
RemoveAt(s, i) == [j \in 1..(Len(s) - 1) |-> IF j < i THEN s[j] ELSE s[j + 1]]

-----------------------------------------------------------------------------
(* AgentRegistry *)

\* has(version)
hasIn(cfgs, v) == IndexOfVersion(cfgs, v) # 0
has(v) == hasIn(configs, v)

\* get(version): the stored config, or nothing (null)
getIn(cfgs, v) == IF hasIn(cfgs, v) THEN {cfgs[IndexOfVersion(cfgs, v)]} ELSE {}
get(v) == getIn(configs, v)

\* getVersions(): the keys in insertion order
getVersions == [i \in 1..Len(configs) |-> configs[i].version]

\* Mutant of ConfigsSet: a config stored under the same version is kept.
ConfigsSet_KeepsOld(cfgs, c) ==
  IF hasIn(cfgs, c.version) THEN cfgs ELSE Append(cfgs, c)

\* this.configs.set(config.version, config)
ConfigsSet(cfgs, c) ==
  IF hasIn(cfgs, c.version)
  THEN [cfgs EXCEPT ![IndexOfVersion(cfgs, c.version)] = c]
  ELSE Append(cfgs, c)

\* Mutant of remove: the result of the deletion is always reported as true.
remove_AlwaysTrue(cfgs, dflt, version) ==
  IF dflt = version
  THEN [configs |-> cfgs, threw |-> TRUE, deleted |-> FALSE]
  ELSE [configs |-> IF hasIn(cfgs, version)
                    THEN RemoveAt(cfgs, IndexOfVersion(cfgs, version))
                    ELSE cfgs,
        threw |-> FALSE, deleted |-> TRUE]

\* remove(version) on a registry state: the mapping afterwards, whether the
\* call threw, and what Map.delete returned.
remove(cfgs, dflt, version) ==
  IF dflt = version
  THEN [configs |-> cfgs, threw |-> TRUE, deleted |-> FALSE]
  ELSE [configs |-> IF hasIn(cfgs, version)
                    THEN RemoveAt(cfgs, IndexOfVersion(cfgs, version))
                    ELSE cfgs,
        threw |-> FALSE, deleted |-> hasIn(cfgs, version)]

\* The version pattern /^v?(\d+)\.(\d+)(?:\.(\d+))?/ and parseInt(_, 10).
Digits == {"0", "1", "2", "3", "4", "5", "6", "7", "8", "9"}

DigitValue(ch) ==
  CASE ch = "0" -> 0 [] ch = "1" -> 1 [] ch = "2" -> 2 [] ch = "3" -> 3
    [] ch = "4" -> 4 [] ch = "5" -> 5 [] ch = "6" -> 6 [] ch = "7" -> 7
    [] ch = "8" -> 8 [] ch = "9" -> 9

\* First index after the run of digits that starts at i (i itself when
\* there is no digit at i): the greedy \d+.
RECURSIVE DigitsEnd(_, _)
DigitsEnd(cs, i) ==
  IF i <= Len(cs) /\ cs[i] \in Digits THEN DigitsEnd(cs, i + 1) ELSE i

\* parseInt of the digits cs[i..j-1], base 10.
RECURSIVE ParseInt(_, _, _)
ParseInt(cs, i, j) ==
  IF j <= i THEN 0 ELSE ParseInt(cs, i, j - 1) * 10 + DigitValue(cs[j - 1])

\* v.match(pattern) mapped to {version, major, minor, patch}; matched is
\* FALSE where the code maps to null.
SemVerMatch(v) ==
  LET cs == Chars(v)
      s1 == IF Len(cs) >= 1 /\ cs[1] = "v" THEN 2 ELSE 1
      e1 == DigitsEnd(cs, s1)
      s2 == e1 + 1
      e2 == DigitsEnd(cs, s2)
      s3 == e2 + 1
      e3 == DigitsEnd(cs, s3)
      matched == /\ e1 > s1
                 /\ e1 <= Len(cs) /\ cs[e1] = "."
                 /\ e2 > s2
      hasPatch == e2 <= Len(cs) /\ cs[e2] = "." /\ e3 > s3
  IN  IF matched
      THEN [matched |-> TRUE, version |-> v,
            major |-> ParseInt(cs, s1, e1),
            minor |-> ParseInt(cs, s2, e2),
            patch |-> IF hasPatch THEN ParseInt(cs, s3, e3) ELSE 0]
      ELSE [matched |-> FALSE, version |-> v, major |-> 0, minor |-> 0,
            patch |-> 0]

\* Mutant of SemVerCompare: the minor number is not compared.
SemVerCompare_MajorThenPatch(a, b) ==
  IF a.major # b.major THEN b.major - a.major
  ELSE b.patch - a.patch

\* The comparator of the sort: negative when a goes before b.
SemVerCompare(a, b) ==
  IF a.major # b.major THEN b.major - a.major
  ELSE IF a.minor # b.minor THEN b.minor - a.minor
  ELSE b.patch - a.patch

\* Array.prototype.sort is stable: x goes after every element that does not
\* compare greater than it.
RECURSIVE InsertSorted(_, _)
InsertSorted(s, x) ==
  IF s = <<>> THEN <<x>>
  ELSE IF SemVerCompare(s[Len(s)], x) <= 0 THEN Append(s, x)
  ELSE Append(InsertSorted(SubSeq(s, 1, Len(s) - 1), x), s[Len(s)])

RECURSIVE SortSemVer(_)
SortSemVer(s) ==
  IF s = <<>> THEN <<>>
  ELSE InsertSorted(SortSemVer(SubSeq(s, 1, Len(s) - 1)), s[Len(s)])

\* .map(...).filter(v => v !== null)
SemanticVersions(versions) ==
  SelectSeq([i \in 1..Len(versions) |-> SemVerMatch(versions[i])],
            LAMBDA m : m.matched)

\* Mutant of getLatestVersionIn: the fallback is the first registered version.
getLatestVersionIn_FallbackFirst(cfgs, dflt) ==
  LET versions == [i \in 1..Len(cfgs) |-> cfgs[i].version]
      semanticVersions == SortSemVer(SemanticVersions(versions))
  IN  IF Len(versions) = 0 THEN Undefined
      ELSE IF Len(semanticVersions) > 0 THEN semanticVersions[1].version
      ELSE versions[1]

\* getLatestVersion() over a registry state
getLatestVersionIn(cfgs, dflt) ==
  LET versions == [i \in 1..Len(cfgs) |-> cfgs[i].version]
      semanticVersions == SortSemVer(SemanticVersions(versions))
  IN  IF Len(versions) = 0 THEN Undefined
      ELSE IF Len(semanticVersions) > 0 THEN semanticVersions[1].version
      ELSE IF Truthy(dflt) THEN dflt
      ELSE versions[1]

getLatestVersion == getLatestVersionIn(configs, defaultVersion)

\* getDefaultVersion(): Undefined stands for null
getDefaultVersion == defaultVersion

-----------------------------------------------------------------------------
(* VersionRouter: reads *)

\* this.userPins.get(userId)
HasPin(pins, u) == IndexOfUser(pins, u) # 0
PinOf(pins, u) == pins[IndexOfUser(pins, u)]

\* getGlobalConfig(): NoGlobalConfig stands for null
getGlobalConfig == globalConfig

\* getUserPin(userId): the pin, or nothing (null)
getUserPinIn(pins, u) == IF HasPin(pins, u) THEN {PinOf(pins, u)} ELSE {}

getUserPin(u) == getUserPinIn(userPins, u)

\* Mutant of getUsersPinnedToVersionIn: the loop stops one entry short.
getUsersPinnedToVersionIn_DropLast(pins, v) ==
  LET hit == SelectSeq(pins, LAMBDA p : p.version = v)
  IN  [i \in 1..(Len(hit) - 1) |-> hit[i].userId]

\* Mutant of getUsersPinnedToVersionIn: the version test is missing.
getUsersPinnedToVersionIn_AllUsers(pins, v) ==
  [i \in 1..Len(pins) |-> pins[i].userId]

\* getUsersPinnedToVersion(version): user ids in map order
getUsersPinnedToVersionIn(pins, v) ==
  LET hit == SelectSeq(pins, LAMBDA p : p.version = v)
  IN  [i \in 1..Len(hit) |-> hit[i].userId]

getUsersPinnedToVersion(v) == getUsersPinnedToVersionIn(userPins, v)

\* The tenant configuration of a context: tenantConfigs.get(context.tenantId)
\* when context.tenantId is truthy.
TenantConfigOf(tcs, t) ==
  IF Truthy(t) /\ t \in DOMAIN tcs THEN tcs[t] ELSE NoTenantConfig

Strategies == {"pin", "tenant-default", "global-default", "latest"}

\* Mutant of resolveByStrategy: the global default is consulted before the
\* tenant default.
resolveByStrategy_GlobalBeforeTenant(cfgs, dflt, pins, tcs, gc, context, strategy) ==
  LET routingStrategy == IF Truthy(strategy) THEN strategy ELSE "pin"
      tenantConfig == TenantConfigOf(tcs, context.tenantId)
      latest == getLatestVersionIn(cfgs, dflt)
  IN  IF routingStrategy = "pin" /\ HasPin(pins, context.userId)
      THEN Returned("resolveVersion", PinOf(pins, context.userId).version)
      ELSE IF /\ routingStrategy \in {"pin", "tenant-default", "global-default"}
              /\ ~gc.isNull /\ Truthy(gc.defaultVersion)
      THEN Returned("resolveVersion", gc.defaultVersion)
      ELSE IF /\ routingStrategy \in {"pin", "tenant-default"}
              /\ tenantConfig.has /\ Truthy(tenantConfig.defaultVersion)
      THEN Returned("resolveVersion", tenantConfig.defaultVersion)
      ELSE IF routingStrategy \in Strategies
      THEN IF ~Truthy(latest)
           THEN Thrown("resolveVersion", "no versions")
           ELSE Returned("resolveVersion", latest)
      ELSE Thrown("resolveVersion", "unknown strategy")

\* resolveVersion below the explicit override: the strategy chain
\* pin -> tenant-default -> global-default -> latest, each strategy entering
\* the chain at its own layer.
resolveByStrategy(cfgs, dflt, pins, tcs, gc, context, strategy) ==
  LET routingStrategy == IF Truthy(strategy) THEN strategy ELSE "pin"
      tenantConfig == TenantConfigOf(tcs, context.tenantId)
      latest == getLatestVersionIn(cfgs, dflt)
  IN  IF routingStrategy = "pin" /\ HasPin(pins, context.userId)
      THEN Returned("resolveVersion", PinOf(pins, context.userId).version)
      ELSE IF /\ routingStrategy \in {"pin", "tenant-default"}
              /\ tenantConfig.has /\ Truthy(tenantConfig.defaultVersion)
      THEN Returned("resolveVersion", tenantConfig.defaultVersion)
      ELSE IF /\ routingStrategy \in {"pin", "tenant-default", "global-default"}
              /\ ~gc.isNull /\ Truthy(gc.defaultVersion)
      THEN Returned("resolveVersion", gc.defaultVersion)
      ELSE IF routingStrategy \in Strategies
      THEN IF ~Truthy(latest)
           THEN Thrown("resolveVersion", "no versions")
           ELSE Returned("resolveVersion", latest)
      ELSE Thrown("resolveVersion", "unknown strategy")

\* Mutant of resolveVersionIn: the strategy argument is ignored and the
\* chain always starts at the pin.
resolveVersionIn_StrategyIgnored(cfgs, dflt, pins, tcs, gc, context, strategy) ==
  IF Truthy(context.version)
  THEN IF ~hasIn(cfgs, context.version)
       THEN Thrown("resolveVersion", "version not found")
       ELSE Returned("resolveVersion", context.version)
  ELSE resolveByStrategy(cfgs, dflt, pins, tcs, gc, context, "pin")

\* Mutant of resolveVersionIn: 'tenant-default' is served by the 'pin' chain.
resolveVersionIn_TenantDefaultAsPin(cfgs, dflt, pins, tcs, gc, context, strategy) ==
  IF Truthy(context.version)
  THEN IF ~hasIn(cfgs, context.version)
       THEN Thrown("resolveVersion", "version not found")
       ELSE Returned("resolveVersion", context.version)
  ELSE resolveByStrategy(cfgs, dflt, pins, tcs, gc, context,
                         IF strategy = "tenant-default" THEN "pin" ELSE strategy)

\* Mutant of resolveVersionIn: a strategy outside the four known ones is
\* served as 'latest'.
resolveVersionIn_UnknownAsLatest(cfgs, dflt, pins, tcs, gc, context, strategy) ==
  IF Truthy(context.version)
  THEN IF ~hasIn(cfgs, context.version)
       THEN Thrown("resolveVersion", "version not found")
       ELSE Returned("resolveVersion", context.version)
  ELSE resolveByStrategy(cfgs, dflt, pins, tcs, gc, context,
                         IF Truthy(strategy) /\ strategy \notin Strategies
                         THEN "latest" ELSE strategy)

\* Mutant of resolveVersionIn: an unregistered explicit version falls back
\* to the strategy chain instead of failing.
resolveVersionIn_ExplicitFallsBack(cfgs, dflt, pins, tcs, gc, context, strategy) ==
  IF Truthy(context.version) /\ hasIn(cfgs, context.version)
  THEN Returned("resolveVersion", context.version)
  ELSE resolveByStrategy(cfgs, dflt, pins, tcs, gc, context, strategy)

\* resolveVersion(context, strategy) over a given state
resolveVersionIn(cfgs, dflt, pins, tcs, gc, context, strategy) ==
  IF Truthy(context.version)
  THEN IF ~hasIn(cfgs, context.version)
       THEN Thrown("resolveVersion", "version not found")
       ELSE Returned("resolveVersion", context.version)
  ELSE resolveByStrategy(cfgs, dflt, pins, tcs, gc, context, strategy)

resolveVersion(context, strategy) ==
  resolveVersionIn(configs, defaultVersion, userPins, tenantConfigs,
                   globalConfig, context, strategy)

-----------------------------------------------------------------------------
(* VersionRouter: writes on the pin map *)

\* Mutant of UserPinsSet: the pin is pushed as a new entry even when the
\* user already has one.
UserPinsSet_AlwaysAppend(pins, u, v, reason) ==
  Append(pins, UserVersionPin(u, v, reason))

\* Mutant of UserPinsSet: an existing pin is kept, the first write wins.
UserPinsSet_FirstWriteWins(pins, u, v, reason) ==
  IF HasPin(pins, u)
  THEN pins
  ELSE Append(pins, UserVersionPin(u, v, reason))

\* this.userPins.set(userId, {userId, version, pinnedAt, reason})
UserPinsSet(pins, u, v, reason) ==
  IF HasPin(pins, u)
  THEN [pins EXCEPT ![IndexOfUser(pins, u)] = UserVersionPin(u, v, reason)]
  ELSE Append(pins, UserVersionPin(u, v, reason))

\* Mutant of pinUser: the pin is written before the version is checked.
pinUser_SetBeforeCheck(cfgs, pins, u, v, reason) ==
  [pins |-> UserPinsSet(pins, u, v, reason), threw |-> ~hasIn(cfgs, v)]

\* pinUser(userId, version, reason) on a pin map: the map afterwards and
\* whether the call threw.
pinUser(cfgs, pins, u, v, reason) ==
  IF ~hasIn(cfgs, v)
  THEN [pins |-> pins, threw |-> TRUE]
  ELSE [pins |-> UserPinsSet(pins, u, v, reason), threw |-> FALSE]

\* The reason migrateUsers records: `Migrated from ${fromVersion}`
MigratedFrom(fromVersion) == "Migrated from " \o fromVersion

\* The loop of migrateUsers over the snapshot `users`, from its i-th entry:
\* one pinUser per user, a throw of pinUser ends the loop.
RECURSIVE MigrateLoop(_, _, _, _, _, _, _)
MigrateLoop(cfgs, pins, users, i, fromVersion, toVersion, migrated) ==
  IF i > Len(users)
  THEN [pins |-> pins, migrated |-> migrated, threw |-> FALSE]
  ELSE LET r == pinUser(cfgs, pins, users[i], toVersion, MigratedFrom(fromVersion))
       IN  IF r.threw
           THEN [pins |-> r.pins, migrated |-> migrated, threw |-> TRUE]
           ELSE MigrateLoop(cfgs, r.pins, users, i + 1, fromVersion, toVersion,
                            migrated + 1)

\* Mutant of migrateUsers: the call returns after the first re-pin.
migrateUsers_FirstUserOnly(cfgs, pins, fromVersion, toVersion) ==
  IF ~hasIn(cfgs, toVersion)
  THEN [pins |-> pins, migrated |-> 0, threw |-> TRUE]
  ELSE LET users == getUsersPinnedToVersionIn(pins, fromVersion)
       IN  MigrateLoop(cfgs, pins,
                       SubSeq(users, 1, IF Len(users) > 1 THEN 1 ELSE Len(users)),
                       1, fromVersion, toVersion, 0)

\* Mutant of migrateUsers: the target version is not checked up front.
migrateUsers_NoTargetCheck(cfgs, pins, fromVersion, toVersion) ==
  MigrateLoop(cfgs, pins, getUsersPinnedToVersionIn(pins, fromVersion), 1,
              fromVersion, toVersion, 0)

\* migrateUsers(fromVersion, toVersion) on a pin map
migrateUsers(cfgs, pins, fromVersion, toVersion) ==
  IF ~hasIn(cfgs, toVersion)
  THEN [pins |-> pins, migrated |-> 0, threw |-> TRUE]
  ELSE MigrateLoop(cfgs, pins, getUsersPinnedToVersionIn(pins, fromVersion), 1,
                   fromVersion, toVersion, 0)

\* Mutant of migrateUsersInterrupted: the snapshot is every pinned user.
migrateUsersInterrupted_AllUsers(cfgs, pins, fromVersion, toVersion, k) ==
  IF ~hasIn(cfgs, toVersion)
  THEN [pins |-> pins, migrated |-> 0, threw |-> TRUE]
  ELSE LET users == [i \in 1..Len(pins) |-> pins[i].userId]
           n == IF k < Len(users) THEN k ELSE Len(users)
       IN  MigrateLoop(cfgs, pins, SubSeq(users, 1, n), 1, fromVersion,
                       toVersion, 0)

\* migrateUsers(fromVersion, toVersion) stopped after k iterations of its
\* loop: the target check and the snapshot are taken, the first k users of
\* the snapshot are re-pinned, the others are not reached. The loop body
\* is the code's; the stop is the interruption the specification describes,
\* which the code, synchronous and without an exit from the loop, does not
\* produce itself.
migrateUsersInterrupted(cfgs, pins, fromVersion, toVersion, k) ==
  IF ~hasIn(cfgs, toVersion)
  THEN [pins |-> pins, migrated |-> 0, threw |-> TRUE]
  ELSE LET users == getUsersPinnedToVersionIn(pins, fromVersion)
           n == IF k < Len(users) THEN k ELSE Len(users)
       IN  MigrateLoop(cfgs, pins, SubSeq(users, 1, n), 1, fromVersion,
                       toVersion, 0)

\* Mutant of rollback: the users are counted but their pins are not rewritten.
rollback_CountsOnly(cfgs, pins, fromVersion, toVersion) ==
  [migrateUsers(cfgs, pins, fromVersion, toVersion) EXCEPT !.pins = pins]

\* Mutant of rollback: the arguments are passed in the wrong order.
rollback_Swapped(cfgs, pins, fromVersion, toVersion) ==
  migrateUsers(cfgs, pins, toVersion, fromVersion)

\* rollback(fromVersion, toVersion)
rollback(cfgs, pins, fromVersion, toVersion) ==
  migrateUsers(cfgs, pins, fromVersion, toVersion)

-----------------------------------------------------------------------------
(* Initial state: new AgentRegistry(), new VersionRouter(registry),
   new AgentExecutor(registry, router, logger, structuredLogger) *)

Init ==
  /\ configs = <<>>
  /\ defaultVersion = Undefined
  /\ userPins = <<>>
  /\ tenantConfigs = [t \in TenantIds |-> NoTenantConfig]
  /\ globalConfig = NoGlobalConfig
  /\ providers = {}
  /\ calls = <<>>
  /\ pending = <<>>
  /\ ret = Returned("constructor", Undefined)

-----------------------------------------------------------------------------
(* AgentRegistry operations *)

registryVars == <<configs, defaultVersion>>
routerVars == <<userPins, tenantConfigs, globalConfig>>
executorVars == <<providers, calls, pending>>

\* Mutant of Register: every registration becomes the default version.
Register_AlwaysSetsDefault(config) ==
  IF ~AgentConfigSchema(config)
  THEN /\ ret' = Thrown("register", "validation")
       /\ UNCHANGED <<registryVars, routerVars, executorVars>>
  ELSE /\ configs' = ConfigsSet(configs, config)
       /\ defaultVersion' = config.version
       /\ ret' = Returned("register", Undefined)
       /\ UNCHANGED <<routerVars, executorVars>>

\* register(config)
Register(config) ==
  IF ~AgentConfigSchema(config)
  THEN /\ ret' = Thrown("register", "validation")
       /\ UNCHANGED <<registryVars, routerVars, executorVars>>
  ELSE /\ configs' = ConfigsSet(configs, config)
       /\ defaultVersion' = IF ~Truthy(defaultVersion) THEN config.version
                            ELSE defaultVersion
       /\ ret' = Returned("register", Undefined)
       /\ UNCHANGED <<routerVars, executorVars>>

\* Mutant of SetDefaultVersion: the version is not looked up.
SetDefaultVersion_NoCheck(version) ==
  /\ defaultVersion' = version
  /\ ret' = Returned("setDefaultVersion", Undefined)
  /\ UNCHANGED <<configs, routerVars, executorVars>>

\* setDefaultVersion(version)
SetDefaultVersion(version) ==
  IF ~has(version)
  THEN /\ ret' = Thrown("setDefaultVersion", "version not found")
       /\ UNCHANGED <<registryVars, routerVars, executorVars>>
  ELSE /\ defaultVersion' = version
       /\ ret' = Returned("setDefaultVersion", Undefined)
       /\ UNCHANGED <<configs, routerVars, executorVars>>

\* Mutant of Remove: the default version can be removed like any other.
Remove_NoDefaultGuard(version) ==
  /\ configs' = IF has(version)
                THEN RemoveAt(configs, IndexOfVersion(configs, version))
                ELSE configs
  /\ ret' = Returned("remove", has(version))
  /\ UNCHANGED <<defaultVersion, routerVars, executorVars>>

\* Mutant of Remove: removing a version also deletes the pins that name it.
Remove_UnpinsUsers(version) ==
  IF defaultVersion = version
  THEN /\ ret' = Thrown("remove", "cannot remove default")
       /\ UNCHANGED <<registryVars, routerVars, executorVars>>
  ELSE /\ configs' = IF has(version)
                     THEN RemoveAt(configs, IndexOfVersion(configs, version))
                     ELSE configs
       /\ userPins' = SelectSeq(userPins, LAMBDA p : p.version # version)
       /\ ret' = Returned("remove", has(version))
       /\ UNCHANGED <<defaultVersion, tenantConfigs, globalConfig, executorVars>>

\* remove(version)
Remove(version) ==
  LET r == remove(configs, defaultVersion, version)
  IN  /\ configs' = r.configs
      /\ ret' = IF r.threw THEN Thrown("remove", "cannot remove default")
                ELSE Returned("remove", r.deleted)
      /\ UNCHANGED <<defaultVersion, routerVars, executorVars>>

\* Mutant of Clear: the default version is kept.
Clear_KeepsDefault ==
  /\ configs' = <<>>
  /\ ret' = Returned("clear", Undefined)
  /\ UNCHANGED <<defaultVersion, routerVars, executorVars>>

\* clear()
Clear ==
  /\ configs' = <<>>
  /\ defaultVersion' = Undefined
  /\ ret' = Returned("clear", Undefined)
  /\ UNCHANGED <<routerVars, executorVars>>

-----------------------------------------------------------------------------
(* VersionRouter operations *)

\* Mutant of SetGlobalConfig: the registry default is not updated.
SetGlobalConfig_NoRegistrySync(config) ==
  /\ globalConfig' = config
  /\ ret' = IF ~has(config.defaultVersion)
            THEN Thrown("setGlobalConfig", "version not found")
            ELSE Returned("setGlobalConfig", Undefined)
  /\ UNCHANGED <<registryVars, userPins, tenantConfigs, executorVars>>

\* setGlobalConfig(config): the assignment comes before the check
SetGlobalConfig(config) ==
  /\ globalConfig' = config
  /\ IF ~has(config.defaultVersion)
     THEN /\ ret' = Thrown("setGlobalConfig", "version not found")
          /\ UNCHANGED <<registryVars, userPins, tenantConfigs, executorVars>>
     ELSE \* registry.setDefaultVersion(config.defaultVersion), which cannot
          \* throw after the check above
          /\ defaultVersion' = config.defaultVersion
          /\ ret' = Returned("setGlobalConfig", Undefined)
          /\ UNCHANGED <<configs, userPins, tenantConfigs, executorVars>>

\* pinUser(userId, version, reason)
PinUser(userId, version, reason) ==
  LET r == pinUser(configs, userPins, userId, version, reason)
  IN  /\ userPins' = r.pins
      /\ ret' = IF r.threw THEN Thrown("pinUser", "version not found")
                ELSE Returned("pinUser", Undefined)
      /\ UNCHANGED <<registryVars, tenantConfigs, globalConfig, executorVars>>

\* unpinUser(userId): Map.delete returns whether the key was present
UnpinUser(userId) ==
  /\ userPins' = IF HasPin(userPins, userId)
                 THEN RemoveAt(userPins, IndexOfUser(userPins, userId))
                 ELSE userPins
  /\ ret' = Returned("unpinUser", HasPin(userPins, userId))
  /\ UNCHANGED <<registryVars, tenantConfigs, globalConfig, executorVars>>

\* Mutant of SetTenantConfig: the configuration is stored for every tenant.
SetTenantConfig_AllTenants(tenantId, config) ==
  /\ tenantConfigs' = [t \in DOMAIN tenantConfigs |-> config]
  /\ ret' = IF Truthy(config.defaultVersion) /\ ~has(config.defaultVersion)
            THEN Thrown("setTenantConfig", "version not found")
            ELSE Returned("setTenantConfig", Undefined)
  /\ UNCHANGED <<registryVars, userPins, globalConfig, executorVars>>

\* setTenantConfig(tenantId, config): the set comes before the check
SetTenantConfig(tenantId, config) ==
  /\ tenantConfigs' = [tenantConfigs EXCEPT ![tenantId] = config]
  /\ ret' = IF Truthy(config.defaultVersion) /\ ~has(config.defaultVersion)
            THEN Thrown("setTenantConfig", "version not found")
            ELSE Returned("setTenantConfig", Undefined)
  /\ UNCHANGED <<registryVars, userPins, globalConfig, executorVars>>

\* Mutant of ResolveVersion: a version resolved for a user without a pin is
\* remembered as that user's pin.
ResolveVersion_PinsResolved(context, strategy) ==
  LET r == resolveVersion(context, strategy)
  IN  /\ ret' = [r EXCEPT !.args = <<context, strategy>>]
      /\ userPins' = IF r.ok /\ ~HasPin(userPins, context.userId)
                     THEN UserPinsSet(userPins, context.userId, r.value,
                                      Undefined)
                     ELSE userPins
      /\ UNCHANGED <<registryVars, tenantConfigs, globalConfig, executorVars>>

\* resolveVersion(context, strategy); ret.args holds the two arguments
ResolveVersion(context, strategy) ==
  /\ ret' = [resolveVersion(context, strategy)
              EXCEPT !.args = <<context, strategy>>]
  /\ UNCHANGED <<registryVars, routerVars, executorVars>>

\* migrateUsers(fromVersion, toVersion)
MigrateUsers(fromVersion, toVersion) ==
  LET r == migrateUsers(configs, userPins, fromVersion, toVersion)
  IN  /\ userPins' = r.pins
      /\ ret' = IF r.threw
                THEN ThrownOf("migrateUsers", <<fromVersion, toVersion>>,
                              "version not found")
                ELSE ReturnedOf("migrateUsers", <<fromVersion, toVersion>>,
                                r.migrated)
      /\ UNCHANGED <<registryVars, tenantConfigs, globalConfig, executorVars>>

\* migrateUsers(fromVersion, toVersion) interrupted after it has re-pinned k
\* of the affected users, at least one and not all of them: nothing is
\* returned to the caller. The interruption is the specification's, not an
\* outcome of the code.
MigrateUsersInterrupted(fromVersion, toVersion, k) ==
  LET r == migrateUsersInterrupted(configs, userPins, fromVersion, toVersion, k)
  IN  /\ ~r.threw
      /\ k >= 1
      /\ k < Len(getUsersPinnedToVersion(fromVersion))
      /\ userPins' = r.pins
      /\ ret' = ThrownOf("migrateUsers", <<fromVersion, toVersion>>,
                         "interrupted")
      /\ UNCHANGED <<registryVars, tenantConfigs, globalConfig, executorVars>>

\* rollback(fromVersion, toVersion)
Rollback(fromVersion, toVersion) ==
  LET r == rollback(configs, userPins, fromVersion, toVersion)
  IN  /\ userPins' = r.pins
      /\ ret' = IF r.threw
                THEN ThrownOf("rollback", <<fromVersion, toVersion>>,
                              "version not found")
                ELSE ReturnedOf("rollback", <<fromVersion, toVersion>>,
                                r.migrated)
      /\ UNCHANGED <<registryVars, tenantConfigs, globalConfig, executorVars>>

-----------------------------------------------------------------------------
(* AgentExecutor *)

\* ExecuteRequest
ExecuteRequest(context, routingStrategy, forceVersion) ==
  [context |-> context, routingStrategy |-> routingStrategy,
   forceVersion |-> forceVersion]

\* What provider.complete does when it is awaited: it resolves with a
\* result or rejects with the provider's error.
CompletionOutcomes == {"resolves", "rejects"}

\* What structuredLogger.logExecution does when it is called: it returns,
\* it throws, or (Promise<void>) it returns a promise that rejects later.
\* execute does not await the returned promise.
SinkOutcomes == {"returns", "throws", "rejects-later"}

ProviderError == "provider error"
SinkError == "sink error"

\* One call on the completion capability or on the log sink, with what
\* the callee did.
CompleteCall(finalConfig, outcome) ==
  [call |-> "complete", config |-> finalConfig, outcome |-> outcome]
LogExecutionCall(entry, outcome) ==
  [call |-> "logExecution", entry |-> entry, outcome |-> outcome]

\* createLogEntry(context, result, error?): the fields execute fills in.
createLogEntry(context, result, error) ==
  [userId |-> context.userId, tenantId |-> context.tenantId,
   version |-> result.version, output |-> result.output, error |-> error]

\* Mutant of applyTenantOverrides: the model override is dropped.
applyTenantOverrides_KeepsModel(tcs, config, context) ==
  LET tenantConfig == TenantConfigOf(tcs, context.tenantId)
      overrides == tenantConfig.promptOverrides
      Value(S) == CHOOSE x \in S : TRUE
  IN  IF ~Truthy(context.tenantId) THEN config
      ELSE IF ~tenantConfig.has \/ ~overrides.present THEN config
      ELSE [config EXCEPT
              !.temperature = IF overrides.temperature # {}
                              THEN Value(overrides.temperature) ELSE @,
              !.maxTokens = IF overrides.maxTokens # {}
                            THEN overrides.maxTokens ELSE @]

\* applyTenantOverrides(config, context): {...config, ...promptOverrides}
applyTenantOverrides(tcs, config, context) ==
  LET tenantConfig == TenantConfigOf(tcs, context.tenantId)
      overrides == tenantConfig.promptOverrides
      Value(S) == CHOOSE x \in S : TRUE
  IN  IF ~Truthy(context.tenantId) THEN config
      ELSE IF ~tenantConfig.has \/ ~overrides.present THEN config
      ELSE [config EXCEPT
              !.temperature = IF overrides.temperature # {}
                              THEN Value(overrides.temperature) ELSE @,
              !.maxTokens = IF overrides.maxTokens # {}
                            THEN overrides.maxTokens ELSE @,
              !.model = IF overrides.model # {}
                        THEN Value(overrides.model) ELSE @]

\* The version of the request: forceVersion || router.resolveVersion(...),
\* as the outcome of a call (a forced version is a normal return).
requestVersion(cfgs, dflt, pins, tcs, gc, request) ==
  IF Truthy(request.forceVersion)
  THEN Returned("resolveVersion", request.forceVersion)
  ELSE resolveVersionIn(cfgs, dflt, pins, tcs, gc, request.context,
                        request.routingStrategy)

\* The catch block of execute for the error thrown in the try block: the
\* error record is forwarded to the sink and the error is thrown again; a
\* sink that throws here replaces the error by its own.
executeCatch(context, error, sink) ==
  LET errorResult == [output |-> "", version |-> "unknown"]
      errorLogEntry == createLogEntry(context, errorResult, error)
  IN  [calls |-> <<LogExecutionCall(errorLogEntry, sink)>>,
       error |-> IF sink = "throws" THEN SinkError ELSE error]

\* execute(request) up to `await provider.complete(finalConfig, input)`,
\* from the outcome `resolved` of the version resolution, on a state of the
\* registry, the router and the executor: whether the call reached the
\* await (suspended) or threw before it and what, the provider cache
\* afterwards, and the version and the config the completion was called
\* with.
executeStart(cfgs, tcs, provs, request, resolved) ==
  LET context == request.context
      version == resolved.value
      config == IF resolved.ok THEN getIn(cfgs, version) ELSE {}
      found == config # {}
      theConfig == CHOOSE c \in config : TRUE
      providerKey == <<theConfig.provider, theConfig.model>>
  IN  [suspended |-> found,
       error |-> IF ~resolved.ok THEN resolved.value
                 ELSE IF ~found THEN "agent version not found"
                 ELSE Undefined,
       providers |-> IF found THEN provs \cup {providerKey} ELSE provs,
       version |-> version,
       finalConfig |-> IF found
                       THEN applyTenantOverrides(tcs, theConfig, context)
                       ELSE Undefined]

\* The number of execute calls suspended at the same time.
MaxPending == 1

\* The locals a suspended execute call keeps across the await.
PendingExecute(request, version, finalConfig) ==
  [request |-> request, version |-> version, finalConfig |-> finalConfig]

\* execute from the await on, for the suspended call p, with the outcome
\* of the completion, of the sink's call in the try block (sink) and of the
\* sink's call in the catch block (catchSink), which are two separate calls:
\* whether execute threw and what, the result, and the calls this execute
\* call made, in order.
executeResume(p, completion, sink, catchSink) ==
  LET context == p.request.context
      result == [output |-> "text", version |-> p.version]
      logEntry == createLogEntry(context, result, Undefined)
      complete == CompleteCall(p.finalConfig, completion)
      \* the rest of the try block: the error it throws (Undefined when it
      \* returns) and the calls made
      tryError == IF completion = "rejects" THEN ProviderError
                  ELSE IF sink = "throws" THEN SinkError
                  ELSE Undefined
      tryCalls == IF completion = "rejects" THEN <<complete>>
                  ELSE <<complete, LogExecutionCall(logEntry, sink)>>
      caught == executeCatch(context, tryError, catchSink)
  IN  [calls |-> IF tryError = Undefined THEN tryCalls
                 ELSE tryCalls \o caught.calls,
       threw |-> tryError # Undefined,
       error |-> IF tryError = Undefined THEN Undefined ELSE caught.error,
       result |-> result]

\* execute(request), from the call to the await on provider.complete, or
\* to the rejection of the call when the version resolution or the config
\* lookup fails. A call that reaches the await is suspended: nothing is
\* returned yet and other calls run before it continues.
ExecuteStart(request, sink) ==
  \E resolved \in {requestVersion(configs, defaultVersion, userPins,
                                   tenantConfigs, globalConfig, request)} :
  \E r \in {executeStart(configs, tenantConfigs, providers, request,
                          resolved)} :
    IF r.suspended
    THEN /\ Len(pending) < MaxPending
         /\ providers' = r.providers
         /\ pending' = Append(pending,
                              PendingExecute(request, r.version, r.finalConfig))
         /\ UNCHANGED <<registryVars, routerVars, calls, ret>>
    ELSE \E caught \in {executeCatch(request.context, r.error, sink)} :
         /\ calls' = caught.calls
         /\ ret' = ThrownOf("execute", <<request>>, caught.error)
         /\ UNCHANGED <<registryVars, routerVars, providers, pending>>

\* execute(request), from the settling of the awaited completion to the
\* return or the rejection of the call, for the i-th suspended call.
ExecuteResume(i, completion, sink, catchSink) ==
  /\ i \in 1..Len(pending)
  /\ \E r \in {executeResume(pending[i], completion, sink, catchSink)} :
       /\ calls' = r.calls
       /\ ret' = IF r.threw
                 THEN ThrownOf("execute", <<pending[i].request>>, r.error)
                 ELSE ReturnedOf("execute", <<pending[i].request>>, r.result)
  /\ pending' = RemoveAt(pending, i)
  /\ UNCHANGED <<registryVars, routerVars, providers>>

-----------------------------------------------------------------------------
(* Inputs of the calls *)

\* One valid configuration per version identifier, as the demo registers.
ConfigOf(v) == AgentConfig(v, "You are a helpful assistant", "openai", "gpt-4", 7, {})

\* Configurations the schema rejects: empty version, empty prompt,
\* unsupported provider, temperature out of range.
InvalidConfigs ==
  { AgentConfig("", "You are a helpful assistant", "openai", "gpt-4", 7, {}),
    AgentConfig("v1.0", "", "openai", "gpt-4", 7, {}),
    AgentConfig("v2.0", "You are a helpful assistant", "azure", "gpt-4", 7, {}),
    AgentConfig("v10.0", "You are a helpful assistant", "openai", "gpt-4", 21, {}) }

RegisterInputs == {ConfigOf(v) : v \in VersionIds} \cup InvalidConfigs

\* Contexts: any user, no tenant or a tenant, no explicit version, the empty
\* string or a version identifier.
Contexts ==
  { ExecutionContext(u, t, v) :
      u \in UserIds, t \in TenantIds \cup {Undefined},
      v \in VersionIds \cup {Undefined, ""} }

\* Strategy arguments: omitted, the four strategies, and a value outside
\* the RoutingStrategy type.
StrategyInputs == Strategies \cup {Undefined, "canary"}

\* Strategy arguments outside the RoutingStrategy type: an unknown name and
\* the empty string.
UnknownStrategies == {"canary", ""}

-----------------------------------------------------------------------------------------------------------------------------------------------------
(* Specification Spec: the registry operations and the router's             *)
(* configuration operations, in any order.  Version resolution is a read:  *)
(* the properties evaluate resolveVersion in every reachable state.        *)

\* Tenants that receive a configuration; the other tenant of TenantIds
\* stays without one.
ConfiguredTenants == {"acme"}

\* At most MaxPinned users are pinned at a time.
MaxPinned == 1

\* pinUser(u, ...) keeps the pin map within `max` entries.
WithinPins(u, max) == Len(userPins) < max \/ HasPin(userPins, u)

Next ==
  \/ \E c \in RegisterInputs : Register(c)
  \/ \E v \in VersionIds : SetDefaultVersion(v)
  \/ \E v \in VersionIds : Remove(v)
  \/ Clear
  \/ \E v \in VersionIds : SetGlobalConfig(GlobalConfig(v))
  \/ \E u \in UserIds, v \in VersionIds :
       WithinPins(u, MaxPinned) /\ PinUser(u, v, Undefined)
  \/ \E u \in UserIds : UnpinUser(u)
  \/ \E t \in ConfiguredTenants, v \in VersionIds \cup {Undefined} :
       SetTenantConfig(t, TenantConfig(v))

Spec == Init /\ [][Next]_vars

-----------------------------------------------------------------------------------------------------------------------------------------------------
(* Specification SpecMigrate: pinning, migration and rollback over a       *)
(* registry of two versions, with a global configuration.                  *)

MigrateVersionIds == {"v2.0", "v2.1"}

MigrateUserIds == {"alice", "bob", "charlie"}

\* At most MaxMigratePinned users are pinned at a time.
MaxMigratePinned == 2

\* Contexts of these users without an explicit version, with or without a
\* tenant.
MigrateContexts ==
  { ExecutionContext(u, t, Undefined) :
      u \in MigrateUserIds, t \in TenantIds \cup {Undefined} }

NextMigrate ==
  \/ \E v \in MigrateVersionIds : Register(ConfigOf(v))
  \/ \E v \in MigrateVersionIds : Remove(v)
  \/ SetGlobalConfig(GlobalConfig("v2.1"))
  \/ \E u \in MigrateUserIds, v \in MigrateVersionIds :
       WithinPins(u, MaxMigratePinned) /\ PinUser(u, v, Undefined)
  \/ \E u \in MigrateUserIds : UnpinUser(u)
  \/ \E f \in MigrateVersionIds, t \in MigrateVersionIds : MigrateUsers(f, t)
  \/ \E f \in MigrateVersionIds, t \in MigrateVersionIds : Rollback(f, t)

SpecMigrate == Init /\ [][NextMigrate]_vars

-----------------------------------------------------------------------------
(* Specification SpecRegistry: the calls that write the registry's default *)
(* version -- register, setDefaultVersion, remove, clear and the router's  *)
(* setGlobalConfig -- in any order, failing calls included.                *)

NextRegistry ==
  \/ \E c \in RegisterInputs : Register(c)
  \/ \E v \in VersionIds : SetDefaultVersion(v)
  \/ \E v \in VersionIds : Remove(v)
  \/ Clear
  \/ \E v \in VersionIds : SetGlobalConfig(GlobalConfig(v))

SpecRegistry == Init /\ [][NextRegistry]_vars

-----------------------------------------------------------------------------
(* Specification SpecPin: two users pinned, re-pinned, unpinned and         *)
(* migrated freely over a registry of two versions that come and go, with  *)
(* a tenant default and a global default.                                  *)

NextPin ==
  \/ \E v \in MigrateVersionIds : Register(ConfigOf(v))
  \/ \E v \in MigrateVersionIds : Remove(v)
  \/ SetGlobalConfig(GlobalConfig("v2.1"))
  \/ \E t \in ConfiguredTenants : SetTenantConfig(t, TenantConfig("v2.1"))
  \/ \E u \in UserIds, v \in MigrateVersionIds : PinUser(u, v, Undefined)
  \/ \E u \in UserIds : UnpinUser(u)
  \/ \E f \in MigrateVersionIds, t \in MigrateVersionIds : MigrateUsers(f, t)
  \/ \E f \in MigrateVersionIds, t \in MigrateVersionIds : Rollback(f, t)

SpecPin == Init /\ [][NextPin]_vars

-----------------------------------------------------------------------------
(* Specification SpecStrategy: the state the routing strategies read -- the *)
(* registry, one user's pin, one tenant's configuration and the global     *)
(* configuration -- written in any order.                                  *)

\* The user who gets pinned; the other user of UserIds stays without a pin.
PinnedUserIds == {"alice"}

NextStrategy ==
  \/ \E v \in VersionIds : Register(ConfigOf(v))
  \/ \E v \in VersionIds : Remove(v)
  \/ \E v \in VersionIds : SetGlobalConfig(GlobalConfig(v))
  \/ \E u \in PinnedUserIds, v \in VersionIds : PinUser(u, v, Undefined)
  \/ \E t \in ConfiguredTenants, v \in VersionIds \cup {Undefined} :
       SetTenantConfig(t, TenantConfig(v))

SpecStrategy == Init /\ [][NextStrategy]_vars

-----------------------------------------------------------------------------
(* Specification SpecRegister: the registry's own operations in any order, *)
(* with valid, overwriting and invalid registrations, and one user pinned  *)
(* to a registered version.                                                *)

\* A second valid configuration for a version: other prompt, provider and
\* model, the highest temperature the schema accepts, a token limit.
OtherConfigOf(v) ==
  AgentConfig(v, "You are a concise assistant", "anthropic", "claude-3-opus",
              TemperatureMax, {1000})

\* The configurations register is called with: one valid configuration per
\* version, a second one for a version, and configurations the schema
\* rejects, one of them with a temperature below the range.
RegisterCalls ==
  RegisterInputs \cup
    { OtherConfigOf("v1.0"),
      AgentConfig("v2.0", "You are a helpful assistant", "openai", "gpt-4",
                  TemperatureMin - 1, {}) }

NextRegister ==
  \/ \E c \in RegisterCalls : Register(c)
  \/ \E v \in VersionIds : SetDefaultVersion(v)
  \/ \E v \in VersionIds : Remove(v)
  \/ Clear
  \/ \E u \in PinnedUserIds, v \in VersionIds : PinUser(u, v, Undefined)

SpecRegister == Init /\ [][NextRegister]_vars

-----------------------------------------------------------------------------
(* Specification SpecLatest: the registry with identifiers of every shape
   the version pattern distinguishes, and getLatestVersion called on it *)

\* Identifiers with and without the leading "v", with and without a patch
\* number, with two-digit numbers, with a suffix after the matched prefix,
\* and identifiers the pattern does not match.
LatestVersionIds ==
  {"v1.0", "v2.0", "v10.0", "v2.1", "2.0", "v2.0.1", "v2.0.x", "latest", "v2"}

MaxRegistered == 3

\* getLatestVersion()
GetLatestVersion ==
  /\ ret' = Returned("getLatestVersion", getLatestVersion)
  /\ UNCHANGED <<registryVars, routerVars, executorVars>>

NextLatest ==
  \/ \E v \in LatestVersionIds :
       /\ has(v) \/ Len(configs) < MaxRegistered
       /\ Register(ConfigOf(v))
  \/ \E v \in LatestVersionIds : SetDefaultVersion(v)
  \/ \E v \in LatestVersionIds : Remove(v)
  \/ Clear
  \/ GetLatestVersion

SpecLatest == Init /\ [][NextLatest]_vars

-----------------------------------------------------------------------------
(* Specification SpecExecute: requests executed over a registry, a pin and
   a tenant configuration that change between the requests, with a completion
   capability and a log sink that succeed or fail *)

ExecuteVersionIds == {"v1.0", "v2.0"}

\* Requests: a user with or without a tenant, forceVersion omitted or
\* given.
ExecuteRequests ==
  { ExecuteRequest(ExecutionContext("alice", t, Undefined), Undefined, f) :
      t \in {Undefined, "acme"}, f \in {Undefined, "v1.0"} }

\* Tenant configurations: a default version, overrides of the temperature
\* and the model, or overrides of the temperature and of maxTokens by
\* values no registered config can have.
ExecuteTenantConfigs ==
  { TenantConfig("v2.0"),
    TenantConfigWith(Undefined, PromptOverrides({3}, {}, {"gpt-4-turbo"})),
    TenantConfigWith(Undefined, PromptOverrides({TemperatureMax + 5}, {0}, {})) }

NextExecute ==
  \/ \E v \in ExecuteVersionIds : Register(ConfigOf(v))
  \/ \E v \in ExecuteVersionIds : Remove(v)
  \/ \E v \in ExecuteVersionIds : PinUser("alice", v, Undefined)
  \/ \E tc \in ExecuteTenantConfigs : SetTenantConfig("acme", tc)
  \/ \E request \in ExecuteRequests, sink \in SinkOutcomes :
        ExecuteStart(request, sink)
  \/ \E i \in 1..MaxPending, completion \in CompletionOutcomes,
        sink \in SinkOutcomes, catchSink \in SinkOutcomes :
        ExecuteResume(i, completion, sink, catchSink)

SpecExecute == Init /\ [][NextExecute]_vars

-----------------------------------------------------------------------------
(* Specification SpecOverrides: requests with and without a tenant executed
   while versions are registered and removed and the tenant's overrides
   change, also during the await of a suspended request *)

OverridesRequests ==
  { ExecuteRequest(ExecutionContext("alice", t, Undefined), Undefined,
                   Undefined) : t \in {Undefined, "acme"} }

OverridesTenantConfigs ==
  { TenantConfigWith(Undefined, PromptOverrides({3}, {}, {"gpt-4-turbo"})),
    TenantConfigWith(Undefined, PromptOverrides({}, {0}, {})) }

NextOverrides ==
  \/ \E v \in ExecuteVersionIds : Register(ConfigOf(v))
  \/ \E v \in ExecuteVersionIds : Remove(v)
  \/ \E tc \in OverridesTenantConfigs : SetTenantConfig("acme", tc)
  \/ \E request \in OverridesRequests : ExecuteStart(request, "returns")
  \/ \E i \in 1..MaxPending, completion \in CompletionOutcomes :
        ExecuteResume(i, completion, "returns", "returns")

SpecOverrides == Init /\ [][NextOverrides]_vars

-----------------------------------------------------------------------------
(* Specification SpecInterrupt: three users pinned over two versions, and
   migrations that complete or are interrupted partway *)

NextInterrupt ==
  \/ \E v \in MigrateVersionIds : Register(ConfigOf(v))
  \/ \E u \in MigrateUserIds, v \in MigrateVersionIds : PinUser(u, v, Undefined)
  \/ \E f \in MigrateVersionIds, t \in MigrateVersionIds : MigrateUsers(f, t)
  \/ \E f \in MigrateVersionIds, t \in MigrateVersionIds,
        k \in 1..Cardinality(MigrateUserIds) : MigrateUsersInterrupted(f, t, k)

SpecInterrupt == Init /\ [][NextInterrupt]_vars

-----------------------------------------------------------------------------
(* Specification SpecResolve: resolveVersion called between the operations
   that write what it reads *)

ResolveContexts ==
  { ExecutionContext("alice", t, v) :
      t \in {Undefined, "acme"}, v \in {Undefined, "v2.0"} }

ResolveStrategies == {Undefined, "latest", "canary"}

NextResolve ==
  \/ \E v \in ExecuteVersionIds : Register(ConfigOf(v))
  \/ \E v \in ExecuteVersionIds : Remove(v)
  \/ \E v \in ExecuteVersionIds : PinUser("alice", v, Undefined)
  \/ \E v \in ExecuteVersionIds : SetTenantConfig("acme", TenantConfig(v))
  \/ \E v \in ExecuteVersionIds : SetGlobalConfig(GlobalConfig(v))
  \/ \E ctx \in ResolveContexts, strategy \in ResolveStrategies :
       ResolveVersion(ctx, strategy)

SpecResolve == Init /\ [][NextResolve]_vars

-----------------------------------------------------------------------------
(* Specification SpecIsolation: two users and two tenants over two
   versions; pins, migrations and tenant configurations written for one
   user or tenant while the other is resolved *)

IsolationContexts ==
  { ExecutionContext(u, t, Undefined) :
      u \in UserIds, t \in TenantIds \cup {Undefined} }

IsolationStrategies == {Undefined, "tenant-default"}

NextIsolation ==
  \/ \E v \in MigrateVersionIds : Register(ConfigOf(v))
  \/ \E v \in MigrateVersionIds : Remove(v)
  \/ \E u \in UserIds, v \in MigrateVersionIds : PinUser(u, v, Undefined)
  \/ \E u \in UserIds : UnpinUser(u)
  \/ \E f \in MigrateVersionIds, t \in MigrateVersionIds : MigrateUsers(f, t)
  \/ \E t \in TenantIds, v \in MigrateVersionIds :
       SetTenantConfig(t, TenantConfig(v))

SpecIsolation == Init /\ [][NextIsolation]_vars

-----------------------------------------------------------------------------
(* Vocabulary of the properties, read directly off the state *)

Present(x) == x # Undefined /\ x # ""

Registered(v) == \E i \in 1..Len(configs) : configs[i].version = v

\* The version of the user's pin, Undefined without a pin.
PinnedVersion(u) ==
  IF \E i \in 1..Len(userPins) : userPins[i].userId = u
  THEN userPins[CHOOSE i \in 1..Len(userPins) : userPins[i].userId = u].version
  ELSE Undefined

\* The default version of the tenant's configuration, Undefined without one.
TenantDefault(t) ==
  IF t \in TenantIds /\ tenantConfigs[t].has
  THEN tenantConfigs[t].defaultVersion
  ELSE Undefined

GlobalDefault ==
  IF globalConfig.isNull THEN Undefined ELSE globalConfig.defaultVersion

\* The users pinned to v in a pin map, as a set.
PinnedSet(pins, v) ==
  {pins[i].userId : i \in {j \in 1..Len(pins) : pins[j].version = v}}

\* The pin assignments (user, version) of a pin map.
Assignments(pins) == {<<pins[i].userId, pins[i].version>> : i \in 1..Len(pins)}

\* The first layer that applies to a context, in the order explicit version,
\* user pin, tenant default, global default, latest registered version.
FirstApplicableLayer(ctx) ==
  IF Present(ctx.version) THEN ctx.version
  ELSE IF Present(PinnedVersion(ctx.userId)) THEN PinnedVersion(ctx.userId)
  ELSE IF Present(TenantDefault(ctx.tenantId)) THEN TenantDefault(ctx.tenantId)
  ELSE IF Present(GlobalDefault) THEN GlobalDefault
  ELSE getLatestVersion

-----------------------------------------------------------------------------
(* Properties of version resolution, under Spec *)

\* C1: with strategy 'pin' or no strategy, resolveVersion returns the first
\* applicable layer in the order explicit version, user pin, tenant default,
\* global default, latest registered version, whichever layers are present.
\* It fails only when the explicit version is not registered, or when no
\* layer applies because the registry is empty.
C1_ResolutionPriority ==
  \A ctx \in Contexts, s \in {"pin", Undefined} :
    LET r == resolveVersion(ctx, s)
        layer == FirstApplicableLayer(ctx)
    IN  IF Present(ctx.version) /\ ~Registered(ctx.version) THEN ~r.ok
        ELSE IF Present(layer) THEN r = Returned("resolveVersion", layer)
        ELSE ~r.ok /\ configs = <<>>

\* A pinned user of a tenant whose pin, tenant default, global default and
\* latest version differ layer to layer, resolved to the pin.
C1_Witness ==
  \E ctx \in Contexts :
    /\ ~Present(ctx.version)
    /\ Present(PinnedVersion(ctx.userId))
    /\ Present(TenantDefault(ctx.tenantId))
    /\ Present(GlobalDefault)
    /\ PinnedVersion(ctx.userId) # TenantDefault(ctx.tenantId)
    /\ TenantDefault(ctx.tenantId) # GlobalDefault
    /\ GlobalDefault # getLatestVersion
    /\ resolveVersion(ctx, Undefined)
         = Returned("resolveVersion", PinnedVersion(ctx.userId))

\* C2: every resolveVersion call that returns, for any context and strategy,
\* returns a non-empty version identifier that is registered at that moment.
C2_ResolvedVersionIsRegistered ==
  \A ctx \in Contexts, s \in StrategyInputs :
    LET r == resolveVersion(ctx, s)
    IN  r.ok => Present(r.value) /\ Registered(r.value)

\* C3: when context.version is set, resolveVersion returns exactly that
\* version if it is registered, for every strategy value and whatever pins
\* and configurations exist, and fails without falling back if it is not.
C3_ExplicitOverride ==
  \A ctx \in Contexts, s \in StrategyInputs :
    Present(ctx.version) =>
      LET r == resolveVersion(ctx, s)
      IN  IF Registered(ctx.version)
          THEN r = Returned("resolveVersion", ctx.version)
          ELSE ~r.ok

\* An explicit registered version that differs from the user's pin, from the
\* global default and from the latest version, and is returned; another
\* version is not registered, so that an explicit request for it fails.
C3_Witness ==
  \E ctx \in Contexts :
    /\ Present(ctx.version) /\ Registered(ctx.version)
    /\ Present(PinnedVersion(ctx.userId))
    /\ PinnedVersion(ctx.userId) # ctx.version
    /\ Present(GlobalDefault) /\ GlobalDefault # ctx.version
    /\ getLatestVersion # ctx.version
    /\ resolveVersion(ctx, "canary") = Returned("resolveVersion", ctx.version)
    /\ \E v \in VersionIds :
         /\ ~Registered(v)
         /\ ~resolveVersion([ctx EXCEPT !.version = v], "pin").ok

\* C4: a setGlobalConfig that fails because config.defaultVersion is not
\* registered changes no state: the global configuration, the registry
\* default and every later resolveVersion are as before the call.
C4_SetGlobalConfigFailureChangesNothing ==
  [][\A v \in VersionIds :
       (SetGlobalConfig(GlobalConfig(v)) /\ ~ret'.ok) =>
         /\ globalConfig' = globalConfig
         /\ defaultVersion' = defaultVersion
         /\ \A ctx \in Contexts, s \in StrategyInputs :
              resolveVersion(ctx, s)' = resolveVersion(ctx, s)]_vars

\* C5: a setTenantConfig that fails because config.defaultVersion is present
\* but not registered changes no state: the tenant's configuration and
\* resolveVersion for contexts of that tenant are as before the call.
C5_SetTenantConfigFailureChangesNothing ==
  [][\A t \in ConfiguredTenants, v \in VersionIds :
       (SetTenantConfig(t, TenantConfig(v)) /\ ~ret'.ok) =>
         /\ tenantConfigs'[t] = tenantConfigs[t]
         /\ \A ctx \in Contexts, s \in StrategyInputs :
              ctx.tenantId = t =>
                resolveVersion(ctx, s)' = resolveVersion(ctx, s)]_vars

-----------------------------------------------------------------------------
(* Properties of migration and rollback, under SpecMigrate *)

\* C6: migrateUsers(from, to) with `to` registered and from # to returns the
\* number of users pinned to `from` before the call; afterwards no user is
\* pinned to `from`, and the users pinned to `to` are those pinned to it
\* before together with the moved users.
C6_MigrateMovesAll ==
  [][\A f \in MigrateVersionIds, t \in MigrateVersionIds :
       (ret'.args = <<f, t>> /\ MigrateUsers(f, t) /\ Registered(t) /\ f # t) =>
         /\ ret'.ok
         /\ ret'.value = Cardinality(PinnedSet(userPins, f))
         /\ PinnedSet(userPins', f) = {}
         /\ PinnedSet(userPins', t)
              = PinnedSet(userPins, t) \cup PinnedSet(userPins, f)]_vars

\* A migration between two different versions has just moved at least one
\* user next to a user who was pinned to the target by hand.
C6_Witness ==
  /\ ret.op = "migrateUsers" /\ ret.ok /\ ret.value >= 1
  /\ ret.args[1] # ret.args[2]
  /\ \E i \in 1..Len(userPins), j \in 1..Len(userPins) :
       /\ userPins[i].version = ret.args[2]
       /\ userPins[i].reason = MigratedFrom(ret.args[1])
       /\ userPins[j].version = ret.args[2]
       /\ userPins[j].reason = Undefined

\* C7 as stated: for every fromVersion and every registered toVersion,
\* running migrateUsers(from, to) again right after a completed
\* migrateUsers(from, to) returns 0 and changes no pin.
C7_MigrateIdempotent ==
  (ret.op = "migrateUsers" /\ ret.ok) =>
    LET again == migrateUsers(configs, userPins, ret.args[1], ret.args[2])
    IN  ~again.threw /\ again.migrated = 0 /\ again.pins = userPins

\* C7 amended: for every registered toVersion and every fromVersion other
\* than toVersion, running migrateUsers(from, to) again right after a
\* completed migrateUsers(from, to) returns 0 and changes no pin.
C7_MigrateIdempotentDistinct ==
  (ret.op = "migrateUsers" /\ ret.ok /\ ret.args[1] # ret.args[2]) =>
    LET again == migrateUsers(configs, userPins, ret.args[1], ret.args[2])
    IN  ~again.threw /\ again.migrated = 0 /\ again.pins = userPins

\* A migration between two different versions has just moved two users.
C7_Witness ==
  /\ ret.op = "migrateUsers" /\ ret.ok /\ ret.value = 2
  /\ ret.args[1] # ret.args[2]
  /\ Cardinality(PinnedSet(userPins, ret.args[2])) = 2

\* C8: migrateUsers(from, to) with `to` not registered fails and leaves the
\* whole pin map unchanged.
C8_MigrateUnregisteredTarget ==
  [][\A f \in MigrateVersionIds, t \in MigrateVersionIds :
       (ret'.args = <<f, t>> /\ MigrateUsers(f, t) /\ ~Registered(t)) =>
         ~ret'.ok /\ userPins' = userPins]_vars

\* A migration has just failed while users were pinned to its source.
C8_Witness ==
  /\ ret.op = "migrateUsers" /\ ~ret.ok
  /\ ~Registered(ret.args[2])
  /\ PinnedSet(userPins, ret.args[1]) # {}

\* C9: a successful migrateUsers(from, to) leaves untouched every pin whose
\* version is not `from`, every tenant configuration, the global
\* configuration and the registry.
C9_MigrateFrame ==
  [][\A f \in MigrateVersionIds, t \in MigrateVersionIds :
       (ret'.args = <<f, t>> /\ MigrateUsers(f, t) /\ ret'.ok) =>
         /\ \A i \in 1..Len(userPins) :
              userPins[i].version # f =>
                \E j \in 1..Len(userPins') : userPins'[j] = userPins[i]
         /\ Len(userPins') = Len(userPins)
         /\ tenantConfigs' = tenantConfigs
         /\ globalConfig' = globalConfig
         /\ configs' = configs
         /\ defaultVersion' = defaultVersion]_vars

\* A migration has just moved a user while another user was pinned to a
\* version other than the source, with a global configuration in place.
C9_Witness ==
  /\ ret.op = "migrateUsers" /\ ret.ok /\ ret.value >= 1
  /\ \E i \in 1..Len(userPins) :
       /\ userPins[i].version # ret.args[1]
       /\ userPins[i].reason # MigratedFrom(ret.args[1])
  /\ ~globalConfig.isNull

\* C10: rollback(from, to) is equivalent to migrateUsers(from, to): from the
\* same state both fail or both return the same count, and both leave the
\* same pin assignments.
C10_RollbackIsMigrate ==
  [][\A f \in MigrateVersionIds, t \in MigrateVersionIds :
       (ret'.args = <<f, t>> /\ Rollback(f, t)) =>
         LET m == migrateUsers(configs, userPins, f, t)
         IN  /\ ret'.ok = ~m.threw
             /\ ret'.ok => ret'.value = m.migrated
             /\ Assignments(userPins') = Assignments(m.pins)]_vars

\* A rollback between two different versions has just moved a user while
\* another user stayed on the version rolled back to.
C10_Witness ==
  /\ ret.op = "rollback" /\ ret.ok /\ ret.value >= 1
  /\ ret.args[1] # ret.args[2]
  /\ Cardinality(PinnedSet(userPins, ret.args[2])) > ret.value

\* C11 as stated: after rollback(from, to) succeeds with from # to, no
\* user's resolveVersion with the default strategy and no explicit version
\* returns `from`.
C11_NoUserResolvesToFrom ==
  (ret.op = "rollback" /\ ret.ok /\ ret.args[1] # ret.args[2]) =>
    \A ctx \in MigrateContexts, s \in {Undefined, "pin"} :
      resolveVersion(ctx, s) # Returned("resolveVersion", ret.args[1])

\* C11 amended: after rollback(from, to) succeeds with from # to, every user
\* who was pinned to `from` resolves to `to`, and no user who holds a pin
\* resolves to `from`, with the default strategy and no explicit version.
C11_NoPinnedUserResolvesToFrom ==
  [][\A f \in MigrateVersionIds, t \in MigrateVersionIds :
       (ret'.args = <<f, t>> /\ Rollback(f, t) /\ ret'.ok /\ f # t) =>
         \A ctx \in MigrateContexts, s \in {Undefined, "pin"} :
           /\ PinnedVersion(ctx.userId) = f =>
                resolveVersion(ctx, s)' = Returned("resolveVersion", t)
           /\ Present(PinnedVersion(ctx.userId)') =>
                resolveVersion(ctx, s)' # Returned("resolveVersion", f)]_vars

\* A rollback has just moved a user off a version that is both the global
\* default and the latest registered version; the user resolves to the
\* version rolled back to.
C11_Witness ==
  /\ ret.op = "rollback" /\ ret.ok /\ ret.value >= 1
  /\ ret.args[1] # ret.args[2]
  /\ GlobalDefault = ret.args[1] /\ getLatestVersion = ret.args[1]
  /\ \E ctx \in MigrateContexts :
       /\ PinnedVersion(ctx.userId) = ret.args[2]
       /\ \E i \in 1..Len(userPins) :
            /\ userPins[i].userId = ctx.userId
            /\ userPins[i].reason = MigratedFrom(ret.args[1])
       /\ resolveVersion(ctx, Undefined) = Returned("resolveVersion", ret.args[2])

-----------------------------------------------------------------------------
(* Properties of pinning, under SpecPin *)

\* The entries of a sequence, as a set.
Range(seq) == {seq[i] : i \in 1..Len(seq)}

\* The step is a successful pinUser(u, v).
PinUserOk(u, v) == ret'.op = "pinUser" /\ ret'.ok /\ PinUser(u, v, Undefined)

\* The step is a successful migrateUsers or rollback away from version f.
MovedFrom(f) ==
  /\ ret'.op \in {"migrateUsers", "rollback"} /\ ret'.ok
  /\ \E t \in MigrateVersionIds :
       /\ ret'.args = <<f, t>>
       /\ MigrateUsers(f, t) \/ Rollback(f, t)

\* C15: a pinned user stays on the pinned version.  In every state,
\* resolveVersion for a user who holds a pin, with strategy 'pin' or
\* unspecified and no explicit version, returns the pinned version, whatever
\* versions are registered and whatever configurations are set; a successful
\* pinUser(u, V) leaves u pinned to V; and every step that does not re-pin u,
\* unpin u or migrate/roll back the users of V -- a registration, a removal
\* of any version, a global configuration, a pin, unpin or migration of
\* other users -- leaves u pinned to V.
C15_PinnedUserStaysPinned ==
  /\ [](\A u \in UserIds :
           Present(PinnedVersion(u)) =>
             \A t \in TenantIds \cup {Undefined}, s \in {Undefined, "pin"} :
               resolveVersion(ExecutionContext(u, t, Undefined), s)
                 = Returned("resolveVersion", PinnedVersion(u)))
  /\ [][\A u \in UserIds :
          /\ \A v \in MigrateVersionIds :
               PinUserOk(u, v) => PinnedVersion(u)' = v
          /\ LET V == PinnedVersion(u)
             IN  ( /\ Present(V)
                   /\ ~(\E v \in MigrateVersionIds : PinUserOk(u, v))
                   /\ ~(ret'.op = "unpinUser" /\ UnpinUser(u))
                   /\ ~MovedFrom(V) ) =>
                     PinnedVersion(u)' = V]_vars

\* The version a user is pinned to has just been removed from the registry
\* while the user's tenant default and the global default name another
\* version and the other user is pinned to that one: the user still resolves
\* to the pinned version.
C15_Witness ==
  /\ ret.op = "remove" /\ ret.ok /\ ret.value = TRUE
  /\ \E ctx \in Contexts :
       /\ ~Truthy(ctx.version)
       /\ Present(PinnedVersion(ctx.userId))
       /\ ~Registered(PinnedVersion(ctx.userId))
       /\ Present(GlobalDefault) /\ GlobalDefault # PinnedVersion(ctx.userId)
       /\ TenantDefault(ctx.tenantId) = GlobalDefault
       /\ \E other \in UserIds : PinnedVersion(other) = GlobalDefault
       /\ resolveVersion(ctx, Undefined)
            = Returned("resolveVersion", PinnedVersion(ctx.userId))

\* C16: after a successful pinUser(u, V), getUsersPinnedToVersion(V) contains
\* u and getUserPin(u) names V.  unpinUser(u) returns true exactly when u had
\* a pin; afterwards getUserPin(u) is absent and no getUsersPinnedToVersion
\* result contains u.  unpinUser on a user without a pin returns false and
\* changes nothing.
C16_PinAndUnpin ==
  [][\A u \in UserIds :
       /\ \A v \in MigrateVersionIds :
            PinUserOk(u, v) =>
              /\ u \in Range(getUsersPinnedToVersion(v)')
              /\ \E p \in getUserPin(u)' : p.userId = u /\ p.version = v
       /\ (ret'.op = "unpinUser" /\ UnpinUser(u)) =>
            /\ ret'.ok
            /\ ret'.value = (getUserPin(u) # {})
            /\ getUserPin(u)' = {}
            /\ \A v \in MigrateVersionIds :
                 u \notin Range(getUsersPinnedToVersion(v)')
            /\ getUserPin(u) = {} =>
                 /\ ret'.value = FALSE
                 /\ userPins' = userPins
                 /\ UNCHANGED <<registryVars, tenantConfigs, globalConfig>>]_vars

\* An unpinUser has just returned true and left another user's pin in place.
C16_Witness ==
  /\ ret.op = "unpinUser" /\ ret.ok /\ ret.value = TRUE
  /\ Len(userPins) >= 1
  /\ \E u \in UserIds : getUserPin(u) = {}

\* C17: in every state each user has at most one pin, so across all versions
\* a user appears in at most one getUsersPinnedToVersion result, and once in
\* it; the pin is the last one written: after a successful pinUser(u, V2), u
\* appears in getUsersPinnedToVersion(V2) and in the result of no other
\* version, whatever pin u had before.
C17_OnePinPerUserLastWriteWins ==
  [][\A u \in UserIds :
       /\ Cardinality({i \in 1..Len(userPins') : userPins'[i].userId = u}) <= 1
       /\ Cardinality({w \in MigrateVersionIds :
                         u \in Range(getUsersPinnedToVersion(w)')}) <= 1
       /\ \A v \in MigrateVersionIds :
            PinUserOk(u, v) =>
              \A w \in MigrateVersionIds :
                (u \in Range(getUsersPinnedToVersion(w)')) <=> (w = v)]_vars

\* A user who already held a pin when another user was migrated away from a
\* version has since been pinned to that version by pinUser: the earlier pin
\* was overwritten in place.
C17_Witness ==
  /\ ret.op = "pinUser" /\ ret.ok
  /\ Len(userPins) = 2
  /\ userPins[1].reason = Undefined
  /\ userPins[2].reason = MigratedFrom(userPins[1].version)
  /\ userPins[2].version # userPins[1].version

\* C18: pinUser(u, V) with V not registered fails and leaves the pin map
\* unchanged: an existing pin of u keeps its version, and a user without a
\* pin stays without one.
C18_PinUnregisteredVersion ==
  [][\A u \in UserIds, v \in MigrateVersionIds :
       (ret'.op = "pinUser" /\ PinUser(u, v, Undefined) /\ ~Registered(v)) =>
         /\ ~ret'.ok
         /\ userPins' = userPins
         /\ getUserPin(u)' = getUserPin(u)]_vars

\* A pinUser has just failed while a user was pinned to the version asked
\* for, which is no longer registered.
C18_Witness ==
  /\ ret.op = "pinUser" /\ ~ret.ok
  /\ \E i \in 1..Len(userPins) : ~Registered(userPins[i].version)

-----------------------------------------------------------------------------
(* Properties of the routing strategies, under SpecStrategy *)

\* The outcome of the last layer of the chain: the latest registered version,
\* a failure when nothing is registered.
LatestLayer ==
  IF configs = <<>> THEN Thrown("resolveVersion", "no versions")
  ELSE Returned("resolveVersion", getLatestVersion)

\* C12: resolveVersion with strategy 'global-default' and no explicit version
\* ignores the user's pin and the tenant's default version: it returns the
\* global configuration's defaultVersion when a global configuration is set,
\* and the outcome of registry.getLatestVersion() otherwise.
C12_GlobalDefaultStrategy ==
  \A ctx \in Contexts :
    ~Truthy(ctx.version) =>
      resolveVersion(ctx, "global-default")
        = IF Present(GlobalDefault)
          THEN Returned("resolveVersion", GlobalDefault)
          ELSE LatestLayer

\* A pinned user of a tenant with a default version: pin, tenant default,
\* global default and latest version all differ, and 'global-default'
\* resolves to the global default.
C12_Witness ==
  \E ctx \in Contexts :
    /\ ~Truthy(ctx.version)
    /\ Present(PinnedVersion(ctx.userId))
    /\ Present(TenantDefault(ctx.tenantId))
    /\ Present(GlobalDefault)
    /\ PinnedVersion(ctx.userId) # GlobalDefault
    /\ TenantDefault(ctx.tenantId) # GlobalDefault
    /\ getLatestVersion # GlobalDefault
    /\ resolveVersion(ctx, "global-default")
         = Returned("resolveVersion", GlobalDefault)

\* C13: with no explicit version, 'tenant-default' returns what 'pin' would
\* return if the user had no pin (the tenant default, else the global
\* default, else the latest version; a tenant without a configuration gets
\* the global default), and 'latest' returns the outcome of
\* registry.getLatestVersion() whatever pins, tenant configurations and
\* global configuration exist.
C13_StrategyFloors ==
  \A ctx \in Contexts :
    ~Truthy(ctx.version) =>
      LET byTenantDefault == resolveVersion(ctx, "tenant-default")
      IN  /\ byTenantDefault
               = IF Present(TenantDefault(ctx.tenantId))
                 THEN Returned("resolveVersion", TenantDefault(ctx.tenantId))
                 ELSE IF Present(GlobalDefault)
                 THEN Returned("resolveVersion", GlobalDefault)
                 ELSE LatestLayer
          /\ byTenantDefault
               = resolveVersionIn(configs, defaultVersion, <<>>, tenantConfigs,
                                  globalConfig, ctx, "pin")
          /\ resolveVersion(ctx, "latest") = LatestLayer

\* A pinned user whose pin, tenant default, global default and latest version
\* all differ: 'tenant-default' resolves to the tenant default, to the global
\* default for a tenant without a configuration, and 'latest' to the latest
\* version.
C13_Witness ==
  \E ctx \in Contexts, other \in TenantIds :
    /\ ~Truthy(ctx.version)
    /\ Present(PinnedVersion(ctx.userId))
    /\ Present(TenantDefault(ctx.tenantId))
    /\ ~tenantConfigs[other].has
    /\ Present(GlobalDefault)
    /\ PinnedVersion(ctx.userId) # TenantDefault(ctx.tenantId)
    /\ TenantDefault(ctx.tenantId) # GlobalDefault
    /\ getLatestVersion \notin {PinnedVersion(ctx.userId), GlobalDefault,
                                 TenantDefault(ctx.tenantId)}
    /\ resolveVersion(ctx, "tenant-default")
         = Returned("resolveVersion", TenantDefault(ctx.tenantId))
    /\ resolveVersion([ctx EXCEPT !.tenantId = other], "tenant-default")
         = Returned("resolveVersion", GlobalDefault)
    /\ resolveVersion(ctx, "latest")
         = Returned("resolveVersion", getLatestVersion)

\* C14 as stated: resolveVersion with a strategy value outside {pin,
\* tenant-default, global-default, latest} fails with the unknown-strategy
\* error, whatever the context and the router state.
C14_UnknownStrategyFails ==
  \A ctx \in Contexts, s \in UnknownStrategies :
    resolveVersion(ctx, s) = Thrown("resolveVersion", "unknown strategy")

\* C14 amended: resolveVersion with a non-empty strategy value outside {pin,
\* tenant-default, global-default, latest} and a context without an explicit
\* version fails with the unknown-strategy error, whatever the router state.
C14_UnknownStrategyFailsWithoutExplicit ==
  \A ctx \in Contexts, s \in UnknownStrategies :
    (~Truthy(ctx.version) /\ Truthy(s)) =>
      resolveVersion(ctx, s) = Thrown("resolveVersion", "unknown strategy")

\* A pinned user of a tenant with a default version, with a global default
\* and registered versions: every layer could answer, and the unknown
\* strategy fails.
C14_Witness ==
  \E ctx \in Contexts :
    /\ ~Truthy(ctx.version)
    /\ Present(PinnedVersion(ctx.userId)) /\ Registered(PinnedVersion(ctx.userId))
    /\ Present(TenantDefault(ctx.tenantId))
    /\ Present(GlobalDefault)
    /\ resolveVersion(ctx, "canary") = Thrown("resolveVersion", "unknown strategy")

-----------------------------------------------------------------------------
(* Properties of the default version, under SpecRegistry *)

\* C19: immediately after a successful setGlobalConfig(config),
\* registry.getDefaultVersion() equals config.defaultVersion and
\* getGlobalConfig().defaultVersion equals config.defaultVersion.
C19_GlobalConfigSyncsRegistryDefault ==
  [][\A v \in VersionIds :
       (ret'.op = "setGlobalConfig" /\ ret'.ok
          /\ SetGlobalConfig(GlobalConfig(v))) =>
         /\ getDefaultVersion' = v
         /\ ~getGlobalConfig'.isNull
         /\ getGlobalConfig'.defaultVersion = v]_vars

\* A setGlobalConfig has just succeeded with a version other than the first
\* registered one, and the registry default names it.
C19_Witness ==
  /\ ret.op = "setGlobalConfig" /\ ret.ok
  /\ Len(configs) >= 2
  /\ getDefaultVersion = getGlobalConfig.defaultVersion
  /\ getDefaultVersion # configs[1].version

\* C20: in every state reachable by register, setDefaultVersion, remove,
\* clear and setGlobalConfig calls, failing calls included, the registry's
\* default version is either unset or names a version present in the
\* registry's mapping.
C20_DefaultIsRegistered ==
  getDefaultVersion = Undefined \/ Registered(getDefaultVersion)

\* The removal of the default version has just been refused while another
\* version is registered, and an earlier setGlobalConfig failed or lost its
\* version: the global configuration names an unregistered version, the
\* registry default a registered one.
C20_Witness ==
  /\ ret.op = "remove" /\ ~ret.ok
  /\ Len(configs) >= 2
  /\ Registered(getDefaultVersion)
  /\ ~getGlobalConfig.isNull
  /\ ~Registered(getGlobalConfig.defaultVersion)

-----------------------------------------------------------------------------
(* Properties of the registry, under SpecRegister *)

\* Identifiers the registry is asked about: the ones the calls register and
\* some that are never registered.
AskedVersionIds == VersionIds \cup {"v2.1", "latest", ""}

\* The step is a successful register(c).
RegisterOk(c) == ret'.op = "register" /\ ret'.ok /\ Register(c)

\* C21: after a successful register(config) with version V, get(V) returns
\* the registered config and has(V) is true, and this stays so across every
\* step that does not remove V, register V again or clear the registry; for
\* every V that is not registered, get(V) is absent and has(V) is false.
C21_RegisterGetHas ==
  /\ [](\A v \in AskedVersionIds :
           ~Registered(v) => get(v) = {} /\ ~has(v))
  /\ [][/\ \A c \in RegisterCalls :
            RegisterOk(c) => get(c.version)' = {c} /\ has(c.version)'
        /\ \A v \in VersionIds :
            ( /\ has(v)
              /\ ~(ret'.op = "remove" /\ ret'.ok /\ getDefaultVersion # v
                     /\ Remove(v))
              /\ ~(\E c \in RegisterCalls : c.version = v /\ RegisterOk(c))
              /\ ret'.op # "clear" ) =>
                get(v)' = get(v) /\ has(v)']_vars

\* A version has just been registered again with another configuration, which
\* get returns, while another version is not registered.
C21_Witness ==
  /\ ret.op = "register" /\ ret.ok
  /\ Len(configs) >= 2
  /\ get("v1.0") = {OtherConfigOf("v1.0")}
  /\ configs[1].version = "v1.0"
  /\ \E v \in VersionIds : get(v) = {} /\ ~has(v)

\* C22 as stated: the first successful registration on a registry sets the
\* default version to that config's version, and every later registration
\* leaves the default version unchanged.  A registration is the first one
\* when no call has been made yet; it is a later one when the registry holds
\* a version or a user holds a pin, which only a registered version admits.
C22_OnlyFirstRegistrationSetsDefault ==
  [][\A c \in RegisterCalls :
       RegisterOk(c) =>
         /\ ret.op = "constructor" => getDefaultVersion' = c.version
         /\ (configs # <<>> \/ userPins # <<>>) =>
              getDefaultVersion' = getDefaultVersion]_vars

\* C22 amended: a successful registration sets the default version to the
\* config's version exactly when the registry has no default version (a new
\* registry, or one emptied by clear()); every other registration,
\* re-registration of an existing identifier included, leaves the default
\* version unchanged.
C22_RegistrationSetsDefaultWhenUnset ==
  [][\A c \in RegisterCalls :
       RegisterOk(c) =>
         getDefaultVersion' = IF getDefaultVersion = Undefined THEN c.version
                              ELSE getDefaultVersion]_vars

\* After a clear() that left a user pinned to a dropped version, versions
\* have been registered again, one of them twice; the default is the first
\* of them and not the version registered twice.
C22_Witness ==
  /\ ret.op = "register" /\ ret.ok
  /\ \E i \in 1..Len(userPins) : ~Registered(userPins[i].version)
  /\ Len(configs) >= 2
  /\ getDefaultVersion = configs[1].version
  /\ get("v1.0") = {OtherConfigOf("v1.0")}
  /\ getDefaultVersion # "v1.0"

\* The configurations the schema is said to reject: an empty version
\* identifier, an empty prompt, an unsupported provider, a temperature
\* outside [0, 2] (in tenths).
ViolatesSchema(c) ==
  \/ c.version = ""
  \/ c.prompt = ""
  \/ c.provider \notin {"openai", "anthropic"}
  \/ c.temperature < 0
  \/ c.temperature > 20

\* The stored configs by version identifier.
Stored(cfgs) == {cfgs[i] : i \in 1..Len(cfgs)}

\* C23: register(config) with a config that violates the schema fails and
\* leaves the registry unchanged: the registered versions, every stored
\* config and the default version are as before.
C23_InvalidRegistrationChangesNothing ==
  [][\A c \in RegisterCalls :
       (ret'.op = "register" /\ ViolatesSchema(c) /\ Register(c)) =>
         /\ ~ret'.ok
         /\ getVersions' = getVersions
         /\ Stored(configs') = Stored(configs)
         /\ getDefaultVersion' = getDefaultVersion]_vars

\* A registration has just been rejected on a registry that holds versions,
\* one of them under the identifier of a rejected configuration.
C23_Witness ==
  /\ ret.op = "register" /\ ~ret.ok
  /\ Len(configs) >= 2
  /\ \E c \in RegisterCalls : ViolatesSchema(c) /\ Registered(c.version)

\* C24: setDefaultVersion(V) with V not registered fails and leaves the
\* registered versions and the default version unchanged; with V registered
\* it makes V the default and changes nothing else.
C24_SetDefaultVersion ==
  [][\A v \in VersionIds :
       (ret'.op = "setDefaultVersion" /\ SetDefaultVersion(v)) =>
         /\ configs' = configs
         /\ UNCHANGED routerVars
         /\ IF Registered(v)
            THEN ret'.ok /\ getDefaultVersion' = v
            ELSE ~ret'.ok /\ getDefaultVersion' = getDefaultVersion]_vars

\* A setDefaultVersion has just failed on a registry that holds versions and
\* a default other than the first registered version, set by an earlier call.
C24_Witness ==
  /\ ret.op = "setDefaultVersion" /\ ~ret.ok
  /\ Len(configs) >= 2
  /\ getDefaultVersion # configs[1].version

\* The step is remove(v): the mapping and the outcome are those of remove.
RemoveStep(v) ==
  /\ ret'.op = "remove"
  /\ LET r == remove(configs, defaultVersion, v)
     IN  /\ configs' = r.configs
         /\ ret'.ok = ~r.threw
         /\ ret'.ok => ret'.value = r.deleted

\* C25: remove(V) fails when V is the current default version and the
\* registry still contains V afterwards; for any other V it deletes V,
\* returns true exactly when V was registered, and leaves the default
\* version and all other versions unchanged.
C25_Remove ==
  [][\A v \in AskedVersionIds :
       RemoveStep(v) =>
         IF getDefaultVersion = v
         THEN ~ret'.ok /\ has(v)' /\ configs' = configs
              /\ getDefaultVersion' = getDefaultVersion
         ELSE /\ ret'.ok
              /\ ret'.value = Registered(v)
              /\ ~has(v)'
              /\ getDefaultVersion' = getDefaultVersion
              /\ \A w \in AskedVersionIds \ {v} :
                   get(w)' = get(w)]_vars

\* A remove has just returned true and left the default version and another
\* version registered.
C25_Witness ==
  /\ ret.op = "remove" /\ ret.ok /\ ret.value = TRUE
  /\ Len(configs) >= 2
  /\ Registered(getDefaultVersion)

-----------------------------------------------------------------------------
(* Properties of getLatestVersion, under SpecLatest *)

\* The identifiers of LatestVersionIds that match the version pattern, with
\* the (major, minor, patch) triple each one denotes.
MatchingIds == LatestVersionIds \ {"latest", "v2"}

TripleOf(v) ==
  CASE v = "v1.0"   -> <<1, 0, 0>>
    [] v = "v2.0"   -> <<2, 0, 0>>
    [] v = "v10.0"  -> <<10, 0, 0>>
    [] v = "v2.1"   -> <<2, 1, 0>>
    [] v = "2.0"    -> <<2, 0, 0>>
    [] v = "v2.0.1" -> <<2, 0, 1>>
    [] v = "v2.0.x" -> <<2, 0, 0>>

\* Numerical order of triples.
TripleGeq(a, b) ==
  \/ a[1] > b[1]
  \/ a[1] = b[1] /\ a[2] > b[2]
  \/ a[1] = b[1] /\ a[2] = b[2] /\ a[3] >= b[3]

RegisteredIds == {v \in LatestVersionIds : Registered(v)}

\* C26: when at least one registered identifier matches the version
\* pattern, getLatestVersion() returns a registered matching identifier
\* whose (major, minor, patch) triple is numerically greater than or equal
\* to that of every other registered matching identifier; over
\* {v1.0, v10.0, v2.0} it returns v10.0.
C26_LatestIsNumericallyHighest ==
  /\ RegisteredIds \cap MatchingIds # {} =>
       /\ getLatestVersion \in RegisteredIds \cap MatchingIds
       /\ \A w \in RegisteredIds \cap MatchingIds :
            TripleGeq(TripleOf(getLatestVersion), TripleOf(w))
  /\ RegisteredIds = {"v1.0", "v10.0", "v2.0"} => getLatestVersion = "v10.0"
  /\ (ret.op = "getLatestVersion" /\ RegisteredIds \cap MatchingIds # {}) =>
       ret.ok /\ ret.value = getLatestVersion

\* getLatestVersion() has just returned v10.0 over v1.0, v10.0 and v2.0,
\* registered in that order.
C26_Witness ==
  /\ ret.op = "getLatestVersion" /\ ret.value = "v10.0"
  /\ getVersions = <<"v1.0", "v10.0", "v2.0">>

\* C27: getLatestVersion() returns absent if and only if the registry is
\* empty; when the registry is non-empty and no identifier matches the
\* version pattern it returns the current default version; in every case a
\* returned identifier is a registered version.
C27_LatestFallback ==
  /\ (getLatestVersion = Undefined) <=> (configs = <<>>)
  /\ (configs # <<>> /\ RegisteredIds \cap MatchingIds = {}) =>
       getLatestVersion = getDefaultVersion
  /\ getLatestVersion # Undefined => Registered(getLatestVersion)
  /\ ret.op = "getLatestVersion" => ret.ok /\ ret.value = getLatestVersion

\* getLatestVersion() has just returned the default version of a registry
\* that holds two identifiers, neither matching the pattern, the default
\* being the second one registered.
C27_Witness ==
  /\ ret.op = "getLatestVersion" /\ ret.value = "v2"
  /\ getVersions = <<"latest", "v2">>
  /\ getDefaultVersion = "v2"

-----------------------------------------------------------------------------
(* Properties of execute, under SpecExecute *)

\* The calls of the last settled execute on the completion capability, and the
\* calls on the log sink that failed inside the call (a sink that returns
\* a promise which rejects later has returned normally).
CompleteCalls == {i \in 1..Len(calls) : calls[i].call = "complete"}
CompletionFailed ==
  \E i \in CompleteCalls : calls[i].outcome = "rejects"
CompletionSucceeded ==
  \E i \in CompleteCalls : calls[i].outcome = "resolves"
SinkFailed ==
  \E i \in 1..Len(calls) :
     calls[i].call = "logExecution" /\ calls[i].outcome # "returns"

\* C28: when the completion capability fails during execute, execute fails
\* with that same provider error, and the completion capability has been
\* invoked exactly once for that call.
C28_ProviderErrorPropagates ==
  (ret.op = "execute" /\ CompletionFailed) =>
    /\ ~ret.ok
    /\ ret.value = ProviderError
    /\ Cardinality(CompleteCalls) = 1

\* C29: the outcome of execute does not depend on the log sink: when the
\* completion succeeds and logExecution fails, execute still returns the
\* successful result, and when the completion fails the caller receives the
\* completion's error whether or not the sink fails.
C29_OutcomeIndependentOfSink ==
  /\ (ret.op = "execute" /\ CompletionSucceeded /\ SinkFailed) =>
       ret.ok /\ ret.value.output = "text"
  /\ (ret.op = "execute" /\ CompletionFailed) =>
       ~ret.ok /\ ret.value = ProviderError

-----------------------------------------------------------------------------
(* Properties of an interrupted migration, under SpecInterrupt *)

\* The last call was migrateUsers(f, t) and it was interrupted partway.
Interrupted(r, f, t) ==
  /\ r.op = "migrateUsers" /\ r.args = <<f, t>>
  /\ ~r.ok /\ r.value = "interrupted"

\* C30: when migrateUsers(from, to), from # to, is interrupted after it has
\* re-pinned only some of the affected users, every affected user is pinned
\* to from or to to and no other pin has changed; a complete run of
\* migrateUsers(from, to) after it moves exactly the remaining users and
\* leaves no user pinned to from.
C30_InterruptedMigrationIsSafeToRerun ==
  [][\A f \in MigrateVersionIds :
     \A t \in MigrateVersionIds \ {f} :
       /\ Interrupted(ret', f, t) =>
            /\ \A u \in MigrateUserIds :
                 IF u \in PinnedSet(userPins, f)
                 THEN PinnedVersion(u)' \in {f, t}
                 ELSE getUserPin(u)' = getUserPin(u)
            /\ PinnedSet(userPins', f) # {}
            /\ PinnedSet(userPins', f) # PinnedSet(userPins, f)
       /\ ( /\ Interrupted(ret, f, t)
            /\ ret'.op = "migrateUsers" /\ ret'.args = <<f, t>> /\ ret'.ok ) =>
            /\ ret'.value = Cardinality(PinnedSet(userPins, f))
            /\ PinnedSet(userPins', t)
                 = PinnedSet(userPins, t) \cup PinnedSet(userPins, f)
            /\ PinnedSet(userPins', f) = {}
            /\ \A u \in MigrateUserIds :
                 u \notin PinnedSet(userPins, f) =>
                   getUserPin(u)' = getUserPin(u)]_vars

\* A migration from v2.0 to v2.1 has just been interrupted: one user has
\* been moved, one is still pinned to v2.0, and a third user's pin to v2.1
\* is the one its own pinUser call made.
C30_Witness ==
  /\ Interrupted(ret, "v2.0", "v2.1")
  /\ PinnedSet(userPins, "v2.0") # {}
  /\ \E i, j \in 1..Len(userPins) :
       /\ userPins[i].version = "v2.1"
       /\ userPins[i].reason = MigratedFrom("v2.0")
       /\ userPins[j].version = "v2.1"
       /\ userPins[j].reason = Undefined

-----------------------------------------------------------------------------
(* Properties of concurrent handlers, under SpecPin *)

\* C31: migrateUsers is one indivisible step for the handlers that share
\* the router: a step of migrateUsers(f, t) either fails and has re-pinned
\* nobody, or has moved every user that was pinned to f and nobody else, so
\* the state before and the state after are the only ones a resolveVersion,
\* pinUser, unpinUser or remove can see; no state holds a partial move.
C31_MigrateUsersIsOneStep ==
  [][\A f \in MigrateVersionIds, t \in MigrateVersionIds :
       (ret'.op = "migrateUsers" /\ ret'.args = <<f, t>>) =>
         /\ UNCHANGED <<registryVars, tenantConfigs, globalConfig>>
         /\ IF ret'.ok
            THEN /\ ret'.value = Cardinality(PinnedSet(userPins, f))
                 /\ \A u \in UserIds :
                      IF u \in PinnedSet(userPins, f)
                      THEN PinnedVersion(u)' = t
                      ELSE getUserPin(u)' = getUserPin(u)
                 /\ \A ctx \in MigrateContexts :
                      ctx.userId \in PinnedSet(userPins, f) =>
                        resolveVersion(ctx, "pin")'
                          = Returned("resolveVersion", t)
            ELSE userPins' = userPins]_vars

\* migrateUsers has just moved two users from one version to another.
C31_Witness ==
  /\ ret.op = "migrateUsers" /\ ret.ok /\ ret.value = 2
  /\ ret.args[1] # ret.args[2]
  /\ PinnedSet(userPins, ret.args[2]) = UserIds
  /\ \A i \in 1..Len(userPins) :
       userPins[i].reason = MigratedFrom(ret.args[1])

-----------------------------------------------------------------------------
(* Referential integrity, under SpecPin *)

\* C32: in every reachable state every user pin's version, every tenant
\* configuration's defaultVersion and the global configuration's
\* defaultVersion name a version that is currently registered.
C32_ReferentialIntegrity ==
  /\ \A i \in 1..Len(userPins) : Registered(userPins[i].version)
  /\ \A t \in TenantIds :
       (tenantConfigs[t].has /\ Present(tenantConfigs[t].defaultVersion)) =>
         Registered(tenantConfigs[t].defaultVersion)
  /\ ~globalConfig.isNull => Registered(globalConfig.defaultVersion)

-----------------------------------------------------------------------------
(* The default version and the registered versions, under SpecRegistry *)

\* C33: in every reachable registry state the default version is set
\* exactly when at least one version is registered; remove never empties a
\* registry, whose last remaining version is the default; only clear()
\* takes a non-empty registry to the empty one; and the registration that
\* follows on an empty registry becomes the default.
C33_DefaultSetIffNonEmpty ==
  /\ []( /\ (getDefaultVersion # Undefined) <=> (configs # <<>>)
         /\ Len(configs) = 1 => getDefaultVersion = configs[1].version )
  /\ [][ /\ (ret'.op = "remove" /\ configs # <<>>) => configs' # <<>>
         /\ (configs # <<>> /\ configs' = <<>>) => ret'.op = "clear"
         /\ ret'.op = "clear" =>
              configs' = <<>> /\ getDefaultVersion' = Undefined
         /\ (configs = <<>> /\ configs' # <<>>) =>
              /\ ret'.op = "register" /\ ret'.ok
              /\ getDefaultVersion' = configs'[1].version ]_vars

\* remove has just deleted a version and the one version that remains is
\* the default, set by setDefaultVersion or setGlobalConfig.
C33_Witness ==
  /\ ret.op = "remove" /\ ret.ok /\ ret.value = TRUE
  /\ Len(configs) = 1
  /\ getDefaultVersion = configs[1].version
  /\ ~globalConfig.isNull

-----------------------------------------------------------------------------
(* Properties of resolveVersion as a read, under SpecResolve *)

\* C34: resolveVersion is a pure read: whether it returns or fails, it
\* leaves the pin map, the tenant configurations, the global configuration,
\* the registered versions and the registry default unchanged, and the same
\* call made again with no mutation in between has the same outcome.
C34_ResolveVersionIsPureRead ==
  /\ [](ret.op = "resolveVersion" =>
          LET again == resolveVersion(ret.args[1], ret.args[2])
          IN  again.ok = ret.ok /\ again.value = ret.value)
  /\ [][ret'.op = "resolveVersion" =>
          /\ userPins' = userPins
          /\ tenantConfigs' = tenantConfigs
          /\ globalConfig' = globalConfig
          /\ configs' = configs
          /\ getDefaultVersion' = getDefaultVersion]_vars

\* resolveVersion has just failed on an unknown strategy, and before that
\* call the registry, the pin map, a tenant configuration and the global
\* configuration had been written.
C34_Witness ==
  /\ ret.op = "resolveVersion" /\ ~ret.ok
  /\ ret.args[2] = "canary"
  /\ Len(configs) = 2 /\ userPins # <<>>
  /\ tenantConfigs["acme"].has /\ ~globalConfig.isNull

-----------------------------------------------------------------------------
(* Isolation of users and tenants, under SpecIsolation *)

\* The step leaves every resolution for the context as it was.
SameResolution(ctx) ==
  \A s \in IsolationStrategies :
     resolveVersionIn(configs', defaultVersion', userPins', tenantConfigs',
                      globalConfig', ctx, s)
       = resolveVersion(ctx, s)

\* The step is pinUser or unpinUser on user a.
PinStepOn(a) ==
  \/ ret'.op = "pinUser"
       /\ \E v \in MigrateVersionIds : PinUser(a, v, Undefined)
  \/ ret'.op = "unpinUser" /\ UnpinUser(a)

\* The step is a migration that returned and moved user a.
MigrationMoves(a) ==
  /\ ret'.op = "migrateUsers" /\ ret'.ok
  /\ a \in PinnedSet(userPins, ret'.args[1])

\* The step is setTenantConfig on tenant t.
TenantStepOn(t) ==
  /\ ret'.op = "setTenantConfig"
  /\ \E v \in MigrateVersionIds : SetTenantConfig(t, TenantConfig(v))

\* C35 as stated: pinUser, unpinUser or a migration that moves user A never
\* changes the outcome of resolveVersion for a context of a different user
\* B, and setTenantConfig on tenant T1 never changes it for a context whose
\* tenant is not T1.
C35_Isolation ==
  [][\A ctx \in IsolationContexts :
       /\ \A a \in UserIds \ {ctx.userId} :
            (PinStepOn(a) \/ MigrationMoves(a)) => SameResolution(ctx)
       /\ \A t \in TenantIds \ {ctx.tenantId} :
            TenantStepOn(t) => SameResolution(ctx)]_vars

\* C35 amended: pinUser or unpinUser on user A never changes the outcome of
\* resolveVersion for a context of a different user B; a migration never
\* changes it for a user that was not pinned to its source version, while
\* it moves every user that was; and setTenantConfig on tenant T1 never
\* changes it for a context whose tenant is not T1.
C35_IsolationOfUnmovedUsers ==
  [][\A ctx \in IsolationContexts :
       /\ \A a \in UserIds \ {ctx.userId} :
            PinStepOn(a) => SameResolution(ctx)
       /\ ( /\ ret'.op = "migrateUsers"
            /\ ctx.userId \notin PinnedSet(userPins, ret'.args[1]) ) =>
            SameResolution(ctx)
       /\ \A t \in TenantIds \ {ctx.tenantId} :
            TenantStepOn(t) => SameResolution(ctx)]_vars

\* A migration has just moved one user while the other stays pinned to
\* another version, and both tenants have a default.
C35_Witness ==
  /\ ret.op = "migrateUsers" /\ ret.ok /\ ret.value = 1
  /\ ret.args[1] # ret.args[2]
  /\ Len(userPins) = 2
  /\ \E i, j \in 1..2 :
       /\ userPins[i].reason = MigratedFrom(ret.args[1])
       /\ userPins[j].reason = Undefined
       /\ userPins[j].version = ret.args[2]
  /\ \A t \in TenantIds : tenantConfigs[t].has

-----------------------------------------------------------------------------
(* Properties of the tenant overrides, under SpecExecute *)

\* The configs the last settled execute passed to the completion capability.
PassedConfigs == {calls[i].config : i \in CompleteCalls}

\* The overrides that apply to a request when execute is called: those of
\* its tenant's configuration, none for a request without tenant.
OverridesFor(request) ==
  IF request.context.tenantId \in TenantIds
  THEN tenantConfigs[request.context.tenantId].promptOverrides
  ELSE NoPromptOverrides

\* C36: execute applies the tenant's promptOverrides (temperature,
\* maxTokens, model) on top of the resolved version's config for that
\* request only: the config passed to the completion capability has the
\* overridden fields and all other fields of the config registered when
\* execute is called, the completion is settled with that same config, and
\* no step of execute changes the registry's configs or the tenant
\* configurations.
C36_OverridesApplyToTheRequestOnly ==
  /\ [][Len(pending') = Len(pending) + 1 =>
          LET p == pending'[Len(pending')]
              passed == p.finalConfig
              o == OverridesFor(p.request)
          IN  \E registered \in get(p.version) :
                /\ passed.prompt = registered.prompt
                /\ passed.provider = registered.provider
                /\ IF o.temperature # {}
                   THEN passed.temperature \in o.temperature
                   ELSE passed.temperature = registered.temperature
                /\ IF o.maxTokens # {}
                   THEN passed.maxTokens = o.maxTokens
                   ELSE passed.maxTokens = registered.maxTokens
                /\ IF o.model # {}
                   THEN passed.model \in o.model
                   ELSE passed.model = registered.model]_vars
  /\ [][Len(pending') < Len(pending) =>
          \E i \in 1..Len(pending) :
             {calls'[j].config :
                j \in {k \in 1..Len(calls') : calls'[k].call = "complete"}}
               = {pending[i].finalConfig}]_vars
  /\ [][(pending' # pending \/ ret'.op = "execute") =>
          configs' = configs /\ tenantConfigs' = tenantConfigs]_vars

\* execute has just returned after passing the completion capability a
\* config with the temperature and model the tenant had when execute was
\* called; the registered config of that version still has its own, and
\* the tenant's overrides were replaced during the await.
C36_Witness ==
  /\ ret.op = "execute" /\ ret.ok
  /\ \E passed \in PassedConfigs :
       /\ passed.temperature = 3 /\ passed.model = "gpt-4-turbo"
       /\ get(passed.version) = {ConfigOf(passed.version)}
       /\ ConfigOf(passed.version).temperature # 3
  /\ tenantConfigs["acme"].promptOverrides.temperature = {}

\* The schema bounds of a registered config: temperature within [0, 2] (in
\* tenths), maxTokens positive when present, model non-empty.
WithinSchemaBounds(c) ==
  /\ c.temperature >= 0 /\ c.temperature <= 20
  /\ \A n \in c.maxTokens : n > 0
  /\ c.model # ""

\* C37: every config that execute passes to the completion capability
\* satisfies the registration schema bounds, including when a tenant's
\* promptOverrides are applied.
C37_PassedConfigWithinSchema ==
  /\ \A i \in 1..Len(pending) : WithinSchemaBounds(pending[i].finalConfig)
  /\ ret.op = "execute" =>
       \A passed \in PassedConfigs : WithinSchemaBounds(passed)

-----------------------------------------------------------------------------
(* Properties of the records forwarded to the log sink, under SpecExecute *)

\* The records the last settled execute handed to the log sink.
LogCalls == {i \in 1..Len(calls) : calls[i].call = "logExecution"}

\* C38: each execute call forwards exactly one record to the log sink: a
\* success record carrying the resolved version after a successful
\* completion, or an error record (version 'unknown', the error message)
\* when version resolution, config lookup or the completion fails; the
\* completion capability is not invoked when resolution or lookup fails.
C38_ExactlyOneRecord ==
  ret.op = "execute" =>
    /\ Cardinality(LogCalls) = 1
    /\ \A i \in LogCalls :
         IF CompletionSucceeded
         THEN /\ calls[i].entry.error = Undefined
              /\ \A j \in CompleteCalls :
                   calls[i].entry.version = calls[j].config.version
         ELSE /\ calls[i].entry.version = "unknown"
              /\ calls[i].entry.error # Undefined
    /\ Cardinality(CompleteCalls) <= 1
    /\ (~ret.ok /\ ret.value \notin {ProviderError, SinkError}) =>
         CompleteCalls = {}

====
